---- MODULE Spec2Model ----
(***************************************************************************)
(* Decision pipeline of prod_tellsee: the rule engine (strategy_engine),   *)
(* the rate limiter and the other gates (controller/guardrails.py), the    *)
(* decision cache (controller/cache.py), the memory store                  *)
(* (controller/memory.py) and handle_request (controller/orchestrator.py). *)
(*                                                                         *)
(* Three specifications share the variables:                               *)
(*   SpecEngine  calls of decide_strategy on every ExtractedContext        *)
(*   SpecRate    calls of check_rate_limit as time passes                  *)
(*   Spec        handle_request calls, one after the other                 *)
(***************************************************************************)
EXTENDS Integers, Sequences, FiniteSets, TLC

VARIABLES
    eng_ctx,          \* SpecEngine: the context under test
    eng_log,          \* SpecEngine: the calls made so far, <<context, result>>
    now,              \* datetime.utcnow(), in seconds
    request_history,  \* RateLimitGuardrail.request_history
    rl_log,           \* SpecRate: outcome of every check_rate_limit call, in order
    pc,               \* Spec: position of each handle_request call
    req,              \* Spec: arguments and locals of each call
    redis,            \* the external key-value store behind the cache
    decision_memory,  \* the "decision_memory" table of the memory store
    calls,            \* Spec: number of handle_request calls started
    answers           \* Spec: what each finished cache-miss call returned

vars == <<eng_ctx, eng_log, now, request_history, rl_log, pc, req, redis,
          decision_memory, calls, answers>>

engineVars == <<eng_ctx, eng_log>>
rateVars == <<now, request_history, rl_log>>
pipeVars == <<pc, req, redis, decision_memory, calls, answers>>

-----------------------------------------------------------------------------
(* strategy_engine/enums.py *)

EventType == {"new_product_launch", "price_change", "none"}
Sentiment == {"positive", "mixed_positive", "neutral", "negative", "unknown"}
Clarity == {"clear", "confusing", "unknown"}
PriceInfo == {"lower", "higher", "same", "unknown"}
ExecutionQuality == {"strong", "average", "weak", "unknown"}
MessagingStrength == {"clear", "generic", "confusing", "unknown"}
MarketConfusion == {"high", "medium", "low", "unknown"}
StrategyType == {"positioning_response", "pricing_response", "wait_and_observe"}
Urgency == {"low", "medium", "high"}

(* strategy_engine/models.py *)

CompetitorSignals ==
    [event : EventType, sentiment : Sentiment, clarity : Clarity,
     price_info : PriceInfo, execution_quality : ExecutionQuality,
     messaging_strength : MessagingStrength, market_confusion : MarketConfusion]

Competitor(name, signals) == [name |-> name, signals |-> signals]

ExtractedContext(competitors, market_signals, user_intent) ==
    [cls |-> "ExtractedContext", competitors |-> competitors,
     market_signals |-> market_signals, user_intent |-> user_intent]

StrategyDecision(strategy_type, focus, urgency, avoid) ==
    [strategy_type |-> strategy_type, focus |-> focus, urgency |-> urgency,
     avoid |-> avoid]

\* Python's None where a rule returns Optional[StrategyDecision]
NoDecision == StrategyDecision("None", "None", "None", <<>>)

-----------------------------------------------------------------------------
(* strategy_engine/rules.py *)

evaluate_positioning_rule(context) ==
    IF Len(context.competitors) = 0 THEN NoDecision
    ELSE LET s == context.competitors[1].signals IN
         IF /\ s.event = "new_product_launch"
            /\ s.sentiment \in {"positive", "mixed_positive"}
            /\ s.clarity = "confusing"
         THEN StrategyDecision("positioning_response", "clarity_and_simplicity",
                               "medium", <<"price_war", "feature_matching">>)
         ELSE IF /\ s.execution_quality = "weak"
                 /\ s.messaging_strength = "generic"
                 /\ s.market_confusion = "high"
         THEN StrategyDecision("positioning_response", "differentiation_and_quality",
                               "medium", <<"price_war">>)
         ELSE NoDecision

\* a plausible slip: the urgency not raised for a strongly executing competitor
evaluate_pricing_rule_NoEscalation(context) ==
    IF Len(context.competitors) = 0 THEN NoDecision
    ELSE LET s == context.competitors[1].signals IN
         IF s.price_info = "lower"
         THEN StrategyDecision("pricing_response", "value_not_discount",
                               "medium", <<"race_to_bottom">>)
         ELSE NoDecision

evaluate_pricing_rule(context) ==
    IF Len(context.competitors) = 0 THEN NoDecision
    ELSE LET s == context.competitors[1].signals IN
         IF s.price_info = "lower"
         THEN IF s.execution_quality = "strong"
              THEN StrategyDecision("pricing_response", "value_not_discount",
                                    "high", <<"race_to_bottom", "panic_discounting">>)
              ELSE StrategyDecision("pricing_response", "value_not_discount",
                                    "medium", <<"race_to_bottom">>)
         ELSE NoDecision

evaluate_aggressive_positioning_rule(context) ==
    IF Len(context.competitors) = 0 THEN NoDecision
    ELSE LET s == context.competitors[1].signals IN
         IF /\ s.execution_quality = "strong"
            /\ s.messaging_strength = "confusing"
            /\ s.market_confusion = "high"
         THEN StrategyDecision("positioning_response", "exploit_messaging_weakness",
                               "high", <<"feature_matching", "wait">>)
         ELSE NoDecision

\* a plausible slip: the defensive wait marked as urgent
evaluate_defensive_wait_rule_Urgent(context) ==
    IF Len(context.competitors) = 0 THEN NoDecision
    ELSE LET s == context.competitors[1].signals IN
         IF /\ s.event = "new_product_launch"
            /\ s.sentiment = "negative"
            /\ s.market_confusion = "high"
         THEN StrategyDecision("wait_and_observe", "let_competitor_fail_first",
                               "high", <<"early_reaction", "price_changes">>)
         ELSE NoDecision

evaluate_defensive_wait_rule(context) ==
    IF Len(context.competitors) = 0 THEN NoDecision
    ELSE LET s == context.competitors[1].signals IN
         IF /\ s.event = "new_product_launch"
            /\ s.sentiment = "negative"
            /\ s.market_confusion = "high"
         THEN StrategyDecision("wait_and_observe", "let_competitor_fail_first",
                               "low", <<"early_reaction", "price_changes">>)
         ELSE NoDecision

evaluate_wait_rule(context) ==
    StrategyDecision("wait_and_observe", "monitoring", "low", <<"hasty_reactions">>)

evaluate_price_increase_rule(context) ==
    IF Len(context.competitors) = 0 THEN NoDecision
    ELSE LET s == context.competitors[1].signals IN
         IF s.price_info = "higher"
         THEN StrategyDecision("positioning_response", "value_at_current_price",
                               "medium", <<"price_increases", "complacency">>)
         ELSE NoDecision

evaluate_market_leader_rule(context) ==
    IF Len(context.competitors) = 0 THEN NoDecision
    ELSE LET s == context.competitors[1].signals IN
         IF /\ s.execution_quality = "strong"
            /\ s.messaging_strength = "clear"
            /\ s.sentiment = "positive"
         THEN StrategyDecision("positioning_response", "defend_differentiation",
                               "high", <<"ignore", "price_war">>)
         ELSE NoDecision

\* rule(context) for a rule given by its function name
ApplyRule(rule, context) ==
    CASE rule = "evaluate_market_leader_rule" -> evaluate_market_leader_rule(context)
      [] rule = "evaluate_aggressive_positioning_rule" ->
             evaluate_aggressive_positioning_rule(context)
      [] rule = "evaluate_pricing_rule" -> evaluate_pricing_rule(context)
      [] rule = "evaluate_positioning_rule" -> evaluate_positioning_rule(context)
      [] rule = "evaluate_price_increase_rule" -> evaluate_price_increase_rule(context)
      [] rule = "evaluate_defensive_wait_rule" -> evaluate_defensive_wait_rule(context)

-----------------------------------------------------------------------------
(* strategy_engine/engine.py *)

\* a plausible slip: the standard responses listed ahead of the high-urgency tier
RULES_PricingFirst ==
    << "evaluate_pricing_rule",
       "evaluate_positioning_rule",
       "evaluate_market_leader_rule",
       "evaluate_aggressive_positioning_rule",
       "evaluate_price_increase_rule",
       "evaluate_defensive_wait_rule" >>

RULES ==
    << "evaluate_market_leader_rule",
       "evaluate_aggressive_positioning_rule",
       "evaluate_pricing_rule",
       "evaluate_positioning_rule",
       "evaluate_price_increase_rule",
       "evaluate_defensive_wait_rule" >>

\* what a call returns: a decision, or the exception it raised
Returned(decision) == [raised |-> "", decision |-> decision]
Raised(exc) == [raised |-> exc, decision |-> NoDecision]

\* decision = rule(context) inside the try of the loops: the rules listed in
\* broken raise while they are evaluated
TryRule(rule, context, broken) ==
    IF rule \in broken THEN Raised("RuleError")
    ELSE Returned(ApplyRule(rule, context))

\* a plausible slip: the loop without its try, the error of a rule leaving it
RECURSIVE EvaluateLoop_NoTry(_, _, _)
EvaluateLoop_NoTry(i, context, broken) ==
    IF i > Len(RULES) THEN Returned(evaluate_wait_rule(context))
    ELSE LET outcome == TryRule(RULES[i], context, broken) IN
         IF outcome.raised # "" THEN outcome
         ELSE IF outcome.decision # NoDecision THEN outcome
         ELSE EvaluateLoop_NoTry(i + 1, context, broken)

\* the for loop of decide_strategy from rule i on: a rule that raises is
\* printed and skipped (except Exception: continue), the first decision that
\* is not None is returned, and after the last rule the fallback
RECURSIVE EvaluateLoop(_, _, _)
EvaluateLoop(i, context, broken) ==
    IF i > Len(RULES) THEN Returned(evaluate_wait_rule(context))
    ELSE LET outcome == TryRule(RULES[i], context, broken) IN
         IF outcome.raised # "" THEN EvaluateLoop(i + 1, context, broken)
         ELSE IF outcome.decision # NoDecision THEN outcome
         ELSE EvaluateLoop(i + 1, context, broken)

\* the loop when no rule raises
EvaluateFrom(i, context) == EvaluateLoop(i, context, {}).decision

\* decide_strategy(context) while the rules listed in broken raise
decide_strategy_faulty(context, broken) ==
    IF context.cls # "ExtractedContext" THEN Raised("ValueError")
    ELSE EvaluateLoop(1, context, broken)

\* a plausible slip: the input check also rejecting an empty competitor list
decide_strategy_RejectEmpty(context) ==
    IF context.cls # "ExtractedContext" \/ Len(context.competitors) = 0
    THEN Raised("ValueError")
    ELSE Returned(EvaluateFrom(1, context))

\* a plausible slip: the avoid list being one shared list that every call
\* appends to, so that a decision carries what earlier calls left in it
decide_strategy_SharedAvoid(context) ==
    IF context.cls # "ExtractedContext" THEN Raised("ValueError")
    ELSE LET d == EvaluateFrom(1, context) IN
         Returned([d EXCEPT !.avoid = @ \o [k \in 1..Len(eng_log) |-> "wait"]])

\* decide_strategy(context): no rule raises on a well-formed context
decide_strategy(context) == decide_strategy_faulty(context, {})

\* the entry of rule_evaluations for one rule: rule, matched, and the decision
\* by strategy_type.value, focus and urgency.value (None when not matched)
DiagnosticEntry(rule, context, broken) ==
    LET outcome == TryRule(rule, context, broken)
        matched == outcome.raised = "" /\ outcome.decision # NoDecision
    IN  [rule |-> rule, matched |-> matched,
         error |-> outcome.raised,
         decision |-> IF matched
                      THEN [strategy_type |-> outcome.decision.strategy_type,
                            focus |-> outcome.decision.focus,
                            urgency |-> outcome.decision.urgency]
                      ELSE [strategy_type |-> "None", focus |-> "None", urgency |-> "None"]]

\* a plausible slip: the diagnostics walking the rules from the last one
get_rule_diagnostics_Backwards(context, broken) ==
    LET fallback == evaluate_wait_rule(context) IN
    [context_summary |-> [num_competitors |-> Len(context.competitors),
                          user_intent |-> context.user_intent],
     rule_evaluations |-> [i \in DOMAIN RULES |->
                              DiagnosticEntry(RULES[Len(RULES) + 1 - i], context, broken)],
     fallback |-> [strategy_type |-> fallback.strategy_type, focus |-> fallback.focus,
                   urgency |-> fallback.urgency]]

\* get_rule_diagnostics(context): the rules that raise are listed as not matched
get_rule_diagnostics(context, broken) ==
    LET fallback == evaluate_wait_rule(context) IN
    [context_summary |-> [num_competitors |-> Len(context.competitors),
                          user_intent |-> context.user_intent],
     rule_evaluations |-> [i \in DOMAIN RULES |-> DiagnosticEntry(RULES[i], context, broken)],
     fallback |-> [strategy_type |-> fallback.strategy_type, focus |-> fallback.focus,
                   urgency |-> fallback.urgency]]

-----------------------------------------------------------------------------
(* controller/guardrails.py: GuardrailResult *)

Violation(violation_type, severity, message) ==
    [violation_type |-> violation_type, severity |-> severity, message |-> message]

\* GuardrailResult(): passed, no violations, no warnings
NewResult == [passed |-> TRUE, violations |-> <<>>, warnings |-> <<>>]

\* a plausible slip: a violation of low severity recorded without failing the
\* result
add_violation_LowPasses(result, violation_type, severity, message) ==
    [result EXCEPT !.passed = IF severity = "low" THEN @ ELSE FALSE,
                   !.violations = Append(@, Violation(violation_type, severity, message))]

add_violation(result, violation_type, severity, message) ==
    [result EXCEPT !.passed = FALSE,
                   !.violations = Append(@, Violation(violation_type, severity, message))]

add_warning(result, message) ==
    [result EXCEPT !.warnings = Append(@, message)]

-----------------------------------------------------------------------------
(* controller/guardrails.py: RateLimitGuardrail *)

max_per_minute == 10
max_per_hour == 100
max_per_day == 500

\* timedelta(minutes=1), timedelta(hours=1), timedelta(days=1), in seconds
Minute == 60
Hour == 3600
Day == 86400

\* self.request_history.get(business_id, [])
HistoryOf(history, business_id) ==
    IF business_id \in DOMAIN history THEN history[business_id] ELSE <<>>

\* [ts for ts in history if now - ts < timedelta(days=1)]
PruneOld(entries, t) == SelectSeq(entries, LAMBDA ts : t - ts < Day)

\* sum(1 for ts in history if ts > bound)
CountAfter_Inclusive(entries, bound) == Len(SelectSeq(entries, LAMBDA ts : ts >= bound))

CountAfter(entries, bound) == Len(SelectSeq(entries, LAMBDA ts : ts > bound))

\* the limit checks of check_rate_limit on the pruned history
RateLimitResult(entries, t) ==
    LET requests_per_minute == CountAfter(entries, t - Minute)
        requests_per_hour == CountAfter(entries, t - Hour)
        requests_per_day == CountAfter(entries, t - Day)
    IN  IF requests_per_minute > max_per_minute
        THEN add_violation(NewResult, "rate_limit_exceeded", "high", "per minute")
        ELSE IF requests_per_hour > max_per_hour
        THEN add_violation(NewResult, "rate_limit_exceeded", "high", "per hour")
        ELSE IF requests_per_day > max_per_day
        THEN add_violation(NewResult, "rate_limit_exceeded", "high", "per day")
        ELSE NewResult

\* a plausible slip: the request recorded before the limits are looked at,
\* whether or not it is admitted
check_rate_limit_RecordAlways(history, business_id, t) ==
    LET pruned == PruneOld(HistoryOf(history, business_id), t)
        result == RateLimitResult(pruned, t)
    IN  [result |-> result,
         history |-> [b \in DOMAIN history \cup {business_id} |->
                         IF b = business_id THEN Append(pruned, t) ELSE history[b]]]

\* check_rate_limit(business_id) at time t: the result, and request_history after
check_rate_limit(history, business_id, t) ==
    LET pruned == PruneOld(HistoryOf(history, business_id), t)
        result == RateLimitResult(pruned, t)
        kept == IF result.passed THEN Append(pruned, t) ELSE pruned
    IN  [result |-> result,
         history |-> [b \in DOMAIN history \cup {business_id} |->
                         IF b = business_id THEN kept ELSE history[b]]]

-----------------------------------------------------------------------------
(* controller/guardrails.py: the input gates *)

min_length == 10
max_length == 3000

\* raw_text, by what the gates and validators look at: len(raw_text),
\* len(raw_text.strip()), whether a SENSITIVE_PATTERNS entry matches, whether a
\* FORBIDDEN_SOURCES entry occurs, whether a PII_PATTERNS entry matches and
\* whether _is_spam holds
RawText(length, stripped, harmful, forbidden_source, pii, spam) ==
    [length |-> length, stripped |-> stripped, harmful |-> harmful,
     forbidden_source |-> forbidden_source, pii |-> pii, spam |-> spam]

\* InputGuardrails.validate(raw_text)
InputGuardrails_validate(raw_text) ==
    IF raw_text.length = 0 \/ raw_text.stripped < min_length
    THEN add_violation(NewResult, "input_too_short", "medium", "too short")
    ELSE IF raw_text.length > max_length
    THEN add_violation(NewResult, "input_too_long", "medium", "too long")
    ELSE IF raw_text.harmful
    THEN add_violation(NewResult, "harmful_intent_detected", "critical", "harmful")
    ELSE LET warned == IF raw_text.pii THEN add_warning(NewResult, "pii")
                       ELSE NewResult
         IN  IF raw_text.spam
             THEN add_violation(warned, "spam_detected", "low", "spam")
             ELSE warned

\* CompetitorDataGuardrail.validate_data_source(raw_text)
validate_data_source(raw_text) ==
    IF raw_text.forbidden_source
    THEN add_violation(NewResult, "unethical_data_source", "critical", "source")
    ELSE NewResult

\* Python's None as a business_id; None and "" are the falsy identities
None == "None"
IsTruthyId(business_id) == business_id \notin {None, ""}

\* BusinessContextGuardrail.validate_business_access(business_id, user_id);
\* user_id is not looked at
validate_business_access(business_id) ==
    IF ~IsTruthyId(business_id)
    THEN add_violation(NewResult, "invalid_business", "critical", "Business ID is required")
    ELSE NewResult

\* a plausible slip: the warnings collected inside the `if not check.passed`
RECURSIVE Aggregate_WarningsOfFailed(_, _)
Aggregate_WarningsOfFailed(checks, result) ==
    IF checks = <<>> THEN result
    ELSE LET check == Head(checks)
             merged == IF ~check.passed
                       THEN [result EXCEPT !.passed = FALSE,
                                           !.violations = @ \o check.violations,
                                           !.warnings = @ \o check.warnings]
                       ELSE result
         IN  Aggregate_WarningsOfFailed(Tail(checks), merged)

\* the aggregation loop of validate_input over the checks that were run
RECURSIVE Aggregate(_, _)
Aggregate(checks, result) ==
    IF checks = <<>> THEN result
    ELSE LET check == Head(checks)
             merged == IF ~check.passed
                       THEN [result EXCEPT !.passed = FALSE,
                                           !.violations = @ \o check.violations]
                       ELSE result
         IN  Aggregate(Tail(checks),
                       [merged EXCEPT !.warnings = @ \o check.warnings])

\* a plausible slip: the rate limiter and the access gate asked whether or
\* not a business id was given
validate_input_AlwaysLimited(raw_text, business_id, history, t) ==
    LET rate == check_rate_limit(history, business_id, t)
        checks == <<InputGuardrails_validate(raw_text), validate_data_source(raw_text),
                    rate.result, validate_business_access(business_id)>>
    IN  [result |-> Aggregate(checks, NewResult),
         checks |-> checks,
         history |-> rate.history]

\* a plausible slip: the rate limiter asked only about a text the content and
\* provenance gates have passed
validate_input_ContentFirst(raw_text, business_id, history, t) ==
    LET rate == check_rate_limit(history, business_id, t)
        content == <<InputGuardrails_validate(raw_text), validate_data_source(raw_text)>>
        limited == IsTruthyId(business_id) /\ content[1].passed /\ content[2].passed
        checks == content
                  \o (IF limited
                      THEN <<rate.result, validate_business_access(business_id)>>
                      ELSE <<>>)
    IN  [result |-> Aggregate(checks, NewResult),
         checks |-> checks,
         history |-> IF limited THEN rate.history ELSE history]

\* GuardrailOrchestrator.validate_input(raw_text, business_id, user_id) at time
\* t: the aggregated result, and request_history after
validate_input(raw_text, business_id, history, t) ==
    LET rate == check_rate_limit(history, business_id, t)
        checks == <<InputGuardrails_validate(raw_text), validate_data_source(raw_text)>>
                  \o (IF IsTruthyId(business_id)
                      THEN <<rate.result, validate_business_access(business_id)>>
                      ELSE <<>>)
    IN  [result |-> Aggregate(checks, NewResult),
         checks |-> checks,
         history |-> IF IsTruthyId(business_id) THEN rate.history ELSE history]

\* controller/validator.py: validate_input(raw_text) raises ValueError
LegacyValidationFails(raw_text) ==
    raw_text.length = 0 \/ raw_text.length > max_length

-----------------------------------------------------------------------------
(* Python values that travel through the cache: the response dict, None, and *)
(* the other values a stored text can decode to                              *)

Response(best_move, focus, urgency, avoid, advice, reason, confidence) ==
    [best_move |-> best_move, focus |-> focus, urgency |-> urgency, avoid |-> avoid,
     advice |-> advice, reason |-> reason, confidence |-> confidence]

NoKeys == Response("", "", "", <<>>, "", "", "")

PyNone == [t |-> "None", v |-> NoKeys]
PyDict(d) == [t |-> "dict", v |-> d]
PyList == [t |-> "list", v |-> NoKeys]

\* bool(value): None and {} are falsy, a dict with keys or a non-empty list truthy
Truthy(value) ==
    \/ value.t = "dict" /\ value.v # NoKeys
    \/ value.t = "list"

\* json.dumps(value): the text that encodes value
json_dumps(value) == [kind |-> "json", py |-> value]

\* a stored text that is not JSON
Garbled == [kind |-> "garbled", py |-> PyNone]

\* json.loads(text) raises on a text that is not JSON
JsonLoadsRaises(text) == text.kind # "json"
json_loads(text) == text.py

-----------------------------------------------------------------------------
(* controller/hasher.py *)

\* a Python dict: its keys in insertion order and the value at each key
Dict(order, at) == [order |-> order, at |-> at]

\* the keys of the signals by Python's order of strings
KeyRank ==
    [clarity |-> 1, competitors |-> 2, event |-> 3, execution_quality |-> 4,
     market_confusion |-> 5, market_signals |-> 6, messaging_strength |-> 7,
     name |-> 8, price_info |-> 9, sentiment |-> 10, signals |-> 11,
     user_intent |-> 12]

\* sorted(keys), as json.dumps(..., sort_keys=True) walks a dict
RECURSIVE SortedKeys(_)
SortedKeys(order) ==
    IF order = <<>> THEN <<>>
    ELSE LET i == CHOOSE i \in DOMAIN order :
                     \A j \in DOMAIN order : KeyRank[order[i]] <= KeyRank[order[j]]
         IN  <<order[i]>>
                \o SortedKeys(SubSeq(order, 1, i - 1) \o SubSeq(order, i + 1, Len(order)))

\* the keys in the order json.dumps writes them
WriteOrder(d, sort_keys) == IF sort_keys THEN SortedKeys(d.order) ELSE d.order

\* json.dumps of the dict of a CompetitorSignals: the items as written
DumpsSignals(d, sort_keys) ==
    LET keys == WriteOrder(d, sort_keys)
    IN  [i \in DOMAIN keys |-> <<keys[i], <<d.at[keys[i]]>>>>]

\* json.dumps of the dict of a Competitor
DumpsCompetitor(d, sort_keys) ==
    LET keys == WriteOrder(d, sort_keys)
    IN  [i \in DOMAIN keys |->
            <<keys[i], IF keys[i] = "signals" THEN DumpsSignals(d.at.signals, sort_keys)
                       ELSE <<d.at[keys[i]]>>>>]

\* json.dumps of the dict of an ExtractedContext: lists keep their order, the
\* keys of every dict are written in sorted order when sort_keys is set
DumpsContext(d, sort_keys) ==
    LET keys == WriteOrder(d, sort_keys)
    IN  [i \in DOMAIN keys |->
            <<keys[i],
              IF keys[i] = "competitors"
              THEN [k \in DOMAIN d.at.competitors |->
                       DumpsCompetitor(d.at.competitors[k], sort_keys)]
              ELSE IF keys[i] = "market_signals" THEN d.at.market_signals
              ELSE <<d.at.user_intent>>>>]

\* dataclasses.asdict(extracted): dicts with the fields in declaration order
asdict(extracted) ==
    Dict(<<"competitors", "market_signals", "user_intent">>,
         [competitors |->
              [k \in DOMAIN extracted.competitors |->
                  Dict(<<"name", "signals">>,
                       [name |-> extracted.competitors[k].name,
                        signals |->
                            Dict(<<"event", "sentiment", "clarity", "price_info",
                                   "execution_quality", "messaging_strength",
                                   "market_confusion">>,
                                 extracted.competitors[k].signals)])],
          market_signals |-> extracted.market_signals,
          user_intent |-> extracted.user_intent])

\* a plausible slip: the payload written without sort_keys
hash_context_Unsorted(extracted_signals) ==
    [sha256 |-> DumpsContext(extracted_signals, FALSE)]

\* hash_context: SHA-256 of the key-sorted JSON of the signals, taken to be
\* free of collisions: the digest stands for the payload it was computed from
hash_context(extracted_signals) ==
    [sha256 |-> DumpsContext(extracted_signals, TRUE)]

-----------------------------------------------------------------------------
(* controller/cache.py *)

\* what redis.get(context_hash) gives: an exception, None, or the stored text
\* as str, as bytes or already parsed
ReplyError == [type |-> "error", text |-> Garbled]
ReplyNone == [type |-> "None", text |-> Garbled]
ReplyOf(type, text) == [type |-> type, text |-> text]

\* a plausible slip: the str branch decoding the text without returning it
get_cached_StrDropped(reply) ==
    IF reply.type = "error" THEN PyNone
    ELSE IF reply.type = "None" THEN PyNone
    ELSE IF reply.type = "dict" THEN json_loads(reply.text)
    ELSE IF reply.type = "bytes"
    THEN IF JsonLoadsRaises(reply.text) THEN PyNone ELSE json_loads(reply.text)
    ELSE PyNone

\* get_cached(context_hash), given the store's reply
get_cached(reply) ==
    IF reply.type = "error" THEN PyNone
    ELSE IF reply.type = "None" THEN PyNone
    ELSE IF reply.type = "dict" THEN json_loads(reply.text)
    ELSE IF reply.type \in {"str", "bytes"}
    THEN IF JsonLoadsRaises(reply.text) THEN PyNone ELSE json_loads(reply.text)
    ELSE PyNone

\* whether the store holds a live entry under key: one that was set and whose
\* TTL has not run out
Live(key) == key \in DOMAIN redis /\ ~redis[key].expired

\* the replies redis.get(key) can give in the current state
StoreReplies(key) ==
    {ReplyError}
    \cup (IF ~Live(key) THEN {ReplyNone}
          ELSE {ReplyOf("str", redis[key].text), ReplyOf("bytes", redis[key].text)}
               \cup (IF redis[key].text.kind = "json" /\ redis[key].text.py.t = "dict"
                     THEN {ReplyOf("dict", redis[key].text)} ELSE {}))

\* an entry of the store: the text, the call that set it, whether its TTL ran out
Entry(text, by) == [text |-> text, by |-> by, expired |-> FALSE]

\* set_cached(context_hash, value) by call id: the store after redis.set with
\* ex=REDIS_TTL_SECONDS, or the store as it was when redis.set raises
set_cached(key, value, id, reachable) ==
    IF reachable
    THEN [k \in DOMAIN redis \cup {key} |->
             IF k = key THEN Entry(json_dumps(value), id) ELSE redis[k]]
    ELSE redis

-----------------------------------------------------------------------------
(* controller/response_builder.py and the output gate *)

\* a plausible slip: the urgency of the response taken from the advisor
build_response_AdvisorUrgency(strategy, advisor) ==
    PyDict(Response(strategy.strategy_type, strategy.focus, advisor.confidence,
                    strategy.avoid, advisor.advice, advisor.reason,
                    advisor.confidence))

build_response(strategy, advisor) ==
    PyDict(Response(strategy.strategy_type, strategy.focus, strategy.urgency,
                    strategy.avoid, advisor.advice, advisor.reason,
                    advisor.confidence))

FORBIDDEN_STRATEGIES ==
    <<"price_war", "race_to_bottom", "aggressive_undercutting", "feature_copying",
      "direct_attack">>

\* `forbidden in focus` on the focus labels of the model, none of which has
\* another label as a proper part
OccursIn(forbidden, focus) == forbidden = focus

AggressiveAdvice == {"crush the competitor"}

\* OutputGuardrails.validate_strategy(strategy_decision)
RECURSIVE ForbiddenFrom(_, _, _)
ForbiddenFrom(k, focus, result) ==
    IF k > Len(FORBIDDEN_STRATEGIES) THEN result
    ELSE ForbiddenFrom(k + 1, focus,
             IF OccursIn(FORBIDDEN_STRATEGIES[k], focus)
             THEN add_violation(result, "forbidden_strategy", "high",
                                FORBIDDEN_STRATEGIES[k])
             ELSE result)

validate_output(strategy_decision) ==
    LET d == strategy_decision.v
        r1 == ForbiddenFrom(1, d.focus, NewResult)
        r2 == IF d.best_move = "wait_and_observe" /\ d.urgency = "high"
              THEN add_violation(r1, "inconsistent_urgency", "medium", "wait/high")
              ELSE r1
    IN  IF d.advice \in AggressiveAdvice THEN add_warning(r2, "tone") ELSE r2

\* the response handle_request substitutes when the output gate objects
SafeFallback ==
    PyDict(Response("wait_and_observe", "monitoring", "low", <<>>,
                    "Recommend careful monitoring before taking action.",
                    "Output validation required conservative approach.", "low"))

\* a plausible slip: the violations of the output gate logged and the response
\* kept as it was built
GuardedResponse_LogOnly(built) == built

\* phase 5 of handle_request: the response that goes on to the cache, the
\* memory store and the caller
GuardedResponse(built) ==
    IF validate_output(built).passed THEN built ELSE SafeFallback

-----------------------------------------------------------------------------
(* controller/memory.py *)

\* the DecisionMemory row save_decision builds
DecisionMemory(decision_id, business_id, competitor_name, extracted_signals, strategy_decision, confidence, context_hash, cache_hit) ==
    [decision_id |-> decision_id, business_id |-> business_id, timestamp |-> now,
     competitor_name |-> competitor_name, extracted_signals |-> extracted_signals,
     strategy_type |-> strategy_decision.v.best_move,
     focus |-> strategy_decision.v.focus, urgency |-> strategy_decision.v.urgency,
     avoid |-> strategy_decision.v.avoid, confidence |-> confidence,
     context_hash |-> context_hash, cache_hit |-> cache_hit]

-----------------------------------------------------------------------------
(* SpecEngine: decide_strategy called on every ExtractedContext *)

MaxEngineCalls == 3

\* a strong, clearly messaged, well received competitor that also undercuts
LeaderSignals ==
    [event |-> "price_change", sentiment |-> "positive", clarity |-> "clear",
     price_info |-> "lower", execution_quality |-> "strong",
     messaging_strength |-> "clear", market_confusion |-> "low"]

\* the contexts the engine is called on: no competitor, one competitor with any
\* signals, and the same followed by a second competitor
EngineContexts ==
    {ExtractedContext(<<>>, <<>>, "monitoring")}
    \cup {ExtractedContext(<<Competitor("A", s)>>, <<>>, "seeking_response") :
            s \in CompetitorSignals}
    \cup {ExtractedContext(<<Competitor("A", s), Competitor("B", LeaderSignals)>>,
                           <<"buzz">>, "comparison") : s \in CompetitorSignals}

\* another caller's context, for calls in between
OtherContext ==
    ExtractedContext(<<Competitor("B", LeaderSignals)>>, <<>>, "monitoring")

\* the state of the rate limiter and of the pipeline before any request
RateIdle ==
    /\ now = 0
    /\ request_history = <<>>
    /\ rl_log = <<>>

PipeIdle ==
    /\ pc = <<>>
    /\ req = <<>>
    /\ redis = <<>>
    /\ decision_memory = <<>>
    /\ calls = 0
    /\ answers = <<>>

InitEngine ==
    /\ eng_ctx \in EngineContexts
    /\ eng_log = <<>>
    /\ RateIdle
    /\ PipeIdle

\* one call decide_strategy(context), its result recorded
EngineCall(context) ==
    /\ Len(eng_log) < MaxEngineCalls
    /\ eng_log' = Append(eng_log, [context |-> context,
                                   result |-> decide_strategy(context)])
    /\ UNCHANGED <<eng_ctx, rateVars, pipeVars>>

CallFixed == EngineCall(eng_ctx)

CallOther == EngineCall(OtherContext)

NextEngine == CallFixed \/ CallOther

SpecEngine == InitEngine /\ [][NextEngine]_vars

-----------------------------------------------------------------------------
(* Claims about the rule engine, checked under SpecEngine *)

SameDecision(a, b) ==
    /\ a.strategy_type = b.strategy_type
    /\ a.focus = b.focus
    /\ a.urgency = b.urgency
    /\ a.avoid = b.avoid

C6_Total ==
    \A i \in DOMAIN eng_log :
        LET r == eng_log[i].result IN
        /\ r.raised = ""
        /\ r.decision.strategy_type \in StrategyType
        /\ r.decision.urgency \in Urgency
        /\ Len(eng_log[i].context.competitors) = 0
              => /\ r.decision.strategy_type = "wait_and_observe"
                 /\ r.decision.focus = "monitoring"
                 /\ r.decision.urgency = "low"

\* the engine has answered a context without competitors
C6_Witness ==
    \E i \in DOMAIN eng_log :
        /\ Len(eng_log[i].context.competitors) = 0
        /\ eng_log[i].result.raised = ""
        /\ eng_log[i].result.decision.focus = "monitoring"

\* the order of the rules as the claim gives it
ClaimedOrder ==
    << "evaluate_market_leader_rule",
       "evaluate_aggressive_positioning_rule",
       "evaluate_pricing_rule",
       "evaluate_positioning_rule",
       "evaluate_price_increase_rule",
       "evaluate_defensive_wait_rule" >>

Matches(k, context) == ApplyRule(ClaimedOrder[k], context) # NoDecision

Fallback == StrategyDecision("wait_and_observe", "monitoring", "low", <<"hasty_reactions">>)

\* C7: decide_strategy returns the decision of the first rule, in the order
\* market-leader, aggressive-positioning, pricing, positioning, price-increase,
\* defensive-wait, whose predicate matches the primary competitor's signals
\* (defend_differentiation when market-leader and pricing both match), and the
\* fallback exactly when none of the six matches.
C7_FirstMatch ==
    \A i \in DOMAIN eng_log :
        LET c == eng_log[i].context
            d == eng_log[i].result.decision
            matching == {k \in DOMAIN ClaimedOrder : Matches(k, c)}
        IN  /\ \A k \in matching :
                  (\A m \in matching : k <= m) => d = ApplyRule(ClaimedOrder[k], c)
            /\ (Matches(1, c) /\ Matches(3, c)) => d.focus = "defend_differentiation"
            /\ (d = Fallback) <=> (matching = {})

\* a call on a context matching both the market-leader and the pricing rule
C7_Witness ==
    \E i \in DOMAIN eng_log :
        /\ Matches(1, eng_log[i].context)
        /\ Matches(3, eng_log[i].context)
        /\ eng_log[i].result.decision.focus = "defend_differentiation"

\* the primary competitor undercuts and executes strongly
UndercutsStrongly(context) ==
    /\ Len(context.competitors) > 0
    /\ context.competitors[1].signals.price_info = "lower"
    /\ context.competitors[1].signals.execution_quality = "strong"

PricingHigh(decision) ==
    /\ decision.strategy_type = "pricing_response"
    /\ decision.urgency = "high"
    /\ \E k \in DOMAIN decision.avoid : decision.avoid[k] = "race_to_bottom"

\* C16 as stated: for every context whose primary competitor has price_info
\* lower and execution_quality strong, whatever its other signals,
\* decide_strategy returns pricing_response with urgency high and an avoid list
\* containing race_to_bottom.
C16_PricingWhatever ==
    \A i \in DOMAIN eng_log :
        UndercutsStrongly(eng_log[i].context)
            => PricingHigh(eng_log[i].result.decision)

\* C16 as amended: for every context whose primary competitor has price_info
\* lower and execution_quality strong and matches neither the market-leader
\* rule (messaging clear and sentiment positive) nor the aggressive-positioning
\* rule (messaging confusing and market confusion high), decide_strategy
\* returns pricing_response with urgency high and an avoid list containing
\* race_to_bottom; when one of the two matches it returns that rule's
\* positioning_response instead.
C16_PricingUnlessOutranked ==
    \A i \in DOMAIN eng_log :
        LET c == eng_log[i].context
            d == eng_log[i].result.decision
        IN  UndercutsStrongly(c)
               => LET s == c.competitors[1].signals
                      leader == s.messaging_strength = "clear" /\ s.sentiment = "positive"
                      aggressive == /\ s.messaging_strength = "confusing"
                                    /\ s.market_confusion = "high"
                  IN  /\ eng_log[i].result.raised = ""
                      /\ (~leader /\ ~aggressive) => PricingHigh(d)
                      /\ (leader \/ aggressive)
                            => /\ d.strategy_type = "positioning_response"
                               /\ d.urgency = "high"

\* the engine has answered a strongly executing undercutter that neither of
\* the two higher rules matches
C16_Witness ==
    \E i \in DOMAIN eng_log :
        /\ UndercutsStrongly(eng_log[i].context)
        /\ eng_log[i].context.competitors[1].signals.messaging_strength = "generic"
        /\ PricingHigh(eng_log[i].result.decision)

-----------------------------------------------------------------------------
(* SpecRate: check_rate_limit called for two identities as time passes *)

BusinessIds == {"b1", "b2"}

MaxChecks == 12
MaxTime == 60

\* the clock moves in steps of half a minute
TimeSteps == {30}

InitRate ==
    /\ RateIdle
    /\ eng_ctx = OtherContext
    /\ eng_log = <<>>
    /\ PipeIdle

ChecksMade ==
    LET RECURSIVE Sum(_)
        Sum(S) == IF S = {} THEN 0
                  ELSE LET b == CHOOSE x \in S : TRUE IN Len(rl_log[b]) + Sum(S \ {b})
    IN  Sum(DOMAIN rl_log)

\* guardrails.rate_limiter.check_rate_limit(business_id) at time now
CheckRateLimit(business_id) ==
    /\ ChecksMade < MaxChecks
    /\ LET out == check_rate_limit(request_history, business_id, now)
           entry == [at |-> now, passed |-> out.result.passed,
                     violations |-> out.result.violations]
       IN  /\ request_history' = out.history
           /\ rl_log' = [b \in DOMAIN rl_log \cup {business_id} |->
                            IF b = business_id
                            THEN Append(HistoryOf(rl_log, business_id), entry)
                            ELSE rl_log[b]]
    /\ UNCHANGED <<now, engineVars, pipeVars>>

\* time passes
Advance(d) ==
    /\ now + d <= MaxTime
    /\ now' = now + d
    /\ UNCHANGED <<request_history, rl_log, engineVars, pipeVars>>

NextRate ==
    \/ \E b \in BusinessIds : CheckRateLimit(b)
    \/ \E d \in TimeSteps : Advance(d)

SpecRate == InitRate /\ [][NextRate]_vars

-----------------------------------------------------------------------------
(* Claims about the rate limiter, checked under SpecRate *)

\* C2: for one business identity starting from an empty history, of the checks
\* made within one 60-second window exactly the first 10 pass and the 11th is
\* rejected with a rate_limit_exceeded violation.
C2_TenPerMinute ==
    \A b \in DOMAIN rl_log :
        \A i \in DOMAIN rl_log[b] :
            rl_log[b][i].at - rl_log[b][1].at < Minute
                => /\ i <= 10 => rl_log[b][i].passed
                   /\ i = 11 => /\ ~rl_log[b][i].passed
                                /\ Len(rl_log[b][i].violations) = 1
                                /\ rl_log[b][i].violations[1].violation_type
                                      = "rate_limit_exceeded"

-----------------------------------------------------------------------------
(* Spec: handle_request calls, served one after the other as main1.py and the *)
(* test scenarios make them                                                   *)

Workers == {"w1"}

MaxCalls == 2

\* the raw texts callers send
PlainText == RawText(60, 60, FALSE, FALSE, FALSE, FALSE)

Texts ==
    { PlainText,
      RawText(0, 0, FALSE, FALSE, FALSE, FALSE),
      RawText(12, 4, FALSE, FALSE, FALSE, FALSE),
      RawText(3001, 3001, FALSE, FALSE, FALSE, FALSE),
      RawText(60, 60, TRUE, FALSE, FALSE, FALSE),
      RawText(60, 60, FALSE, TRUE, FALSE, FALSE),
      RawText(60, 60, TRUE, TRUE, FALSE, FALSE),
      RawText(60, 60, FALSE, FALSE, TRUE, FALSE),
      RawText(60, 60, FALSE, FALSE, FALSE, TRUE) }

\* what extract_signals can return
NoCompetitors == ExtractedContext(<<>>, <<>>, "monitoring")
PipelineContexts == {NoCompetitors, OtherContext}

\* what explain_strategy can return
Advisor(advice, reason, confidence) ==
    [advice |-> advice, reason |-> reason, confidence |-> confidence]

AdvisorOutputs ==
    { Advisor("hold your position", "they lead on execution", "high"),
      Advisor("crush the competitor", "they undercut you", "low") }

\* the advisor output of a call that has not reached explain_strategy
NoAdvisor == Advisor("", "", "")

NoHash == [sha256 |-> <<>>]

\* the call record while no call is being served
NoCall ==
    [id |-> 0, business_id |-> None, enable_memory |-> FALSE,
     violations |-> <<>>, extracted |-> NoCompetitors, context_hash |-> NoHash,
     cached |-> PyNone, response |-> PyNone, confidence |-> "",
     outcome |-> "", returned |-> PyNone,
     invoked |-> {}, path |-> "", lookup |-> "", from |-> 0, mem |-> "",
     after |-> {}, raw_text |-> PlainText, flagged |-> FALSE, stored |-> FALSE,
     advisor |-> NoAdvisor, log |-> <<>>,
     checks |-> <<>>, guardrail_result |-> NewResult,
     output_guardrail |-> NewResult]

\* the identity b2 has been admitted 11 times in the current minute (by calls
\* the content gate went on to block, which leave nothing else behind)
Saturated == [k \in 1..(max_per_minute + 1) |-> 0]

Init ==
    /\ pc = [w \in Workers |-> "idle"]
    /\ req = [w \in Workers |-> NoCall]
    /\ redis = <<>>
    /\ decision_memory = <<>>
    /\ calls = 0
    /\ answers = <<>>
    /\ now = 0
    /\ request_history = [b \in {"b2"} |-> Saturated]
    /\ rl_log = <<>>
    /\ eng_ctx = OtherContext
    /\ eng_log = <<>>

\* handle_request returns value
Return(call, value) ==
    [call EXCEPT !.outcome = "returned", !.returned = value]

\* handle_request raises exc
Raise(call, exc) == [call EXCEPT !.outcome = exc]

\* a plausible slip: only a critical violation blocking the request
AfterPhaseZero_CriticalOnly(call, raw_text, result) ==
    LET checked == [call EXCEPT !.violations = result.violations,
                                !.guardrail_result = result] IN
    IF \E k \in DOMAIN result.violations : result.violations[k].severity = "critical"
    THEN Raise(checked, "GuardrailException")
    ELSE IF LegacyValidationFails(raw_text) THEN Raise(checked, "ValueError")
    ELSE checked

\* the call record after phase 0 of handle_request, given guardrail_result: the
\* block on a failed result, and the legacy validate_input
AfterPhaseZero(call, raw_text, result) ==
    LET checked == [call EXCEPT !.violations = result.violations,
                                !.guardrail_result = result] IN
    IF ~result.passed THEN Raise(checked, "GuardrailException")
    ELSE IF LegacyValidationFails(raw_text) THEN Raise(checked, "ValueError")
    ELSE checked

\* the caller enters handle_request(raw_text, business_id, user_id,
\* enable_memory), as one of at most limit calls
BeginWithin(limit, w, raw_text, business_id, enable_memory) ==
    /\ pc[w] = "idle"
    /\ calls < limit
    /\ LET checked == validate_input(raw_text, business_id, request_history, now)
           call == AfterPhaseZero(
                       [NoCall EXCEPT !.id = calls + 1,
                                      !.business_id = business_id,
                                      !.enable_memory = enable_memory,
                                      !.raw_text = raw_text,
                                      !.checks = checked.checks,
                                      !.after = DOMAIN answers],
                       raw_text, checked.result)
       IN  /\ request_history' = checked.history
           /\ req' = [req EXCEPT ![w] = call]
           /\ pc' = [pc EXCEPT ![w] = IF call.outcome = "" THEN "extract" ELSE "done"]
    /\ calls' = calls + 1
    /\ UNCHANGED <<redis, decision_memory, answers, now, rl_log, engineVars>>

\* the caller enters handle_request(raw_text, business_id, user_id, enable_memory)
Begin(w, raw_text, business_id, enable_memory) ==
    BeginWithin(MaxCalls, w, raw_text, business_id, enable_memory)

\* the caller enters handle_request_from_business(business_id, user_id,
\* enable_memory): the access check, the snapshot loaded from the database
\* (snapshot_ok: the load succeeds and gives raw_text), then handle_request
BeginFromBusiness(w, business_id, enable_memory, snapshot_ok, raw_text) ==
    /\ pc[w] = "idle"
    /\ calls < MaxCalls
    /\ LET access == validate_business_access(business_id)
           fresh == [NoCall EXCEPT !.id = calls + 1,
                                   !.business_id = business_id,
                                   !.enable_memory = enable_memory,
                                   !.raw_text = raw_text,
                                   !.after = DOMAIN answers]
           checked == validate_input(raw_text, business_id, request_history, now)
           call == IF ~access.passed
                   THEN Raise([fresh EXCEPT !.violations = access.violations],
                              "GuardrailException")
                   ELSE IF ~snapshot_ok THEN Raise(fresh, "SnapshotError")
                   ELSE AfterPhaseZero([fresh EXCEPT !.checks = checked.checks],
                                       raw_text, checked.result)
       IN  /\ request_history' = IF access.passed /\ snapshot_ok
                                 THEN checked.history ELSE request_history
           /\ req' = [req EXCEPT ![w] = call]
           /\ pc' = [pc EXCEPT ![w] = IF call.outcome = "" THEN "extract" ELSE "done"]
    /\ calls' = calls + 1
    /\ UNCHANGED <<redis, decision_memory, answers, now, rl_log, engineVars>>

\* a plausible slip: a failed extraction tried a second time before giving up
Extract_RetryOnce(w, ok, extracted) ==
    /\ pc[w] = "extract"
    /\ LET call == [req[w] EXCEPT !.invoked = @ \cup {"extractor"},
                                  !.log = Append(@, "extractor")] IN
       IF ok
       THEN /\ req' = [req EXCEPT ![w] =
                         [call EXCEPT !.extracted = extracted,
                                      !.context_hash = hash_context(asdict(extracted))]]
            /\ pc' = [pc EXCEPT ![w] = "lookup"]
       ELSE IF "extractor" \notin req[w].invoked
       THEN /\ req' = [req EXCEPT ![w] = call]
            /\ pc' = pc
       ELSE /\ req' = [req EXCEPT ![w] = Raise(call, "ExtractorError")]
            /\ pc' = [pc EXCEPT ![w] = "done"]
    /\ UNCHANGED <<redis, decision_memory, calls, answers, rateVars, engineVars>>

\* extract_signals(raw_text) (ok: the extractor answers with extracted), then
\* hash_context(asdict(extracted))
Extract(w, ok, extracted) ==
    /\ pc[w] = "extract"
    /\ LET call == [req[w] EXCEPT !.invoked = @ \cup {"extractor"},
                                  !.log = Append(@, "extractor")] IN
       IF ok
       THEN /\ req' = [req EXCEPT ![w] =
                         [call EXCEPT !.extracted = extracted,
                                      !.context_hash = hash_context(asdict(extracted))]]
            /\ pc' = [pc EXCEPT ![w] = "lookup"]
       ELSE /\ req' = [req EXCEPT ![w] = Raise(call, "ExtractorError")]
            /\ pc' = [pc EXCEPT ![w] = "done"]
    /\ UNCHANGED <<redis, decision_memory, calls, answers, rateVars, engineVars>>

\* whether the memory write is attempted for this call
WantsMemory(call) == call.enable_memory /\ IsTruthyId(call.business_id)

\* what the store held for the lookup, as the claims speak of it
LookupKind(reply, key) ==
    IF reply.type = "error" THEN "unreachable"
    ELSE IF reply.type = "None"
    THEN IF key \in DOMAIN redis THEN "expired" ELSE "absent"
    ELSE IF reply.text.kind # "json" THEN "undecodable"
    ELSE IF reply.text.py.t # "dict" THEN "corrupted"
    ELSE "valid"

\* cached = get_cached(context_hash) and the `if cached:` branch
Lookup(w, reply) ==
    /\ pc[w] = "lookup"
    /\ reply \in StoreReplies(req[w].context_hash)
    /\ LET cached == get_cached(reply)
           call == [req[w] EXCEPT
                       !.invoked = @ \cup {"cache"},
                       !.log = Append(@, "cache_get"),
                       !.cached = cached,
                       !.lookup = LookupKind(reply, req[w].context_hash),
                       !.from = IF reply.type \in {"error", "None"} THEN 0
                                ELSE redis[req[w].context_hash].by,
                       !.path = IF Truthy(cached) THEN "hit" ELSE "miss"]
       IN  IF Truthy(cached)
           THEN IF WantsMemory(call)
                THEN /\ req' = [req EXCEPT ![w] = call]
                     /\ pc' = [pc EXCEPT ![w] = "save"]
                ELSE /\ req' = [req EXCEPT ![w] = Return(call, cached)]
                     /\ pc' = [pc EXCEPT ![w] = "done"]
           ELSE /\ req' = [req EXCEPT ![w] = call]
                /\ pc' = [pc EXCEPT ![w] = "decide"]
    /\ UNCHANGED <<redis, decision_memory, calls, answers, rateVars, engineVars>>

\* what follows strategy = decide_strategy(...) in handle_request:
\* explain_strategy (ok: the Explainer answers with advisor), build_response,
\* and the output gate with its fallback
Assemble(w, strategy, ok, advisor) ==
    /\ pc[w] = "decide"
    /\ LET call == [req[w] EXCEPT !.invoked = @ \cup {"engine", "explainer"},
                                  !.log = @ \o <<"engine", "explainer">>]
           built == build_response(strategy.decision, advisor)
       IN  IF strategy.raised # ""
           THEN /\ req' = [req EXCEPT ![w] =
                             Raise([req[w] EXCEPT !.invoked = @ \cup {"engine"},
                                                  !.log = Append(@, "engine")],
                                   strategy.raised)]
                /\ pc' = [pc EXCEPT ![w] = "done"]
           ELSE IF ~ok
           THEN /\ req' = [req EXCEPT ![w] = Raise(call, "ExplainerError")]
                /\ pc' = [pc EXCEPT ![w] = "done"]
           ELSE /\ req' = [req EXCEPT ![w] =
                             [call EXCEPT !.response = GuardedResponse(built),
                                          !.output_guardrail = validate_output(built),
                                          !.flagged = ~validate_output(built).passed,
                                          !.advisor = advisor,
                                          !.confidence = advisor.confidence]]
                /\ pc' = [pc EXCEPT ![w] = "store"]
    /\ UNCHANGED <<redis, decision_memory, calls, answers, rateVars, engineVars>>

\* decide_strategy on the extracted context, and what follows it
DecideAndExplain(w, ok, advisor) ==
    Assemble(w, decide_strategy(req[w].extracted), ok, advisor)

\* handle_request with the rule engine replaced by one that returns decision
\* (the manipulated engine test_memory_guardrails.py speaks of)
DecideStubbed(w, decision, ok, advisor) ==
    Assemble(w, Returned(decision), ok, advisor)

\* a plausible slip: a fresh response taking over the decision remembered for
\* the same context
Result_FromMemory(call) ==
    IF call.path = "hit" THEN call.cached
    ELSE IF \E k \in DOMAIN decision_memory :
                decision_memory[k].context_hash = call.context_hash
    THEN LET row == decision_memory[CHOOSE k \in DOMAIN decision_memory :
                        decision_memory[k].context_hash = call.context_hash]
         IN  PyDict(Response(row.strategy_type, row.focus, row.urgency, row.avoid,
                             call.response.v.advice, call.response.v.reason,
                             call.response.v.confidence))
    ELSE call.response

\* the value the call is about to return: the cached dict on a hit, the
\* response on a miss
Result(call) == IF call.path = "hit" THEN call.cached ELSE call.response

\* the record of finished cache-miss calls after this call has returned
Answered(call) ==
    IF call.path # "miss" THEN answers
    ELSE [k \in DOMAIN answers \cup {call.id} |->
             IF k = call.id
             THEN [context_hash |-> call.context_hash, returned |-> Result(call)]
             ELSE answers[k]]

\* set_cached(context_hash, response) (reachable: redis.set succeeds), and the
\* return of a call that does not write to memory
Store(w, reachable) ==
    /\ pc[w] = "store"
    /\ redis' = set_cached(req[w].context_hash, req[w].response, req[w].id, reachable)
    /\ LET call == [req[w] EXCEPT !.stored = reachable,
                                  !.invoked = @ \cup {"cache"},
                                  !.log = Append(@, "cache_set")]
       IN  IF WantsMemory(call)
           THEN /\ pc' = [pc EXCEPT ![w] = "save"]
                /\ req' = [req EXCEPT ![w] = call]
                /\ UNCHANGED answers
           ELSE /\ req' = [req EXCEPT ![w] = Return(call, Result(call))]
                /\ answers' = Answered(call)
                /\ pc' = [pc EXCEPT ![w] = "done"]
    /\ UNCHANGED <<decision_memory, calls, rateVars, engineVars>>

\* the call memory_store.save_decision(...) is entered: its arguments are
\* evaluated (cached.get raises on a cached value that is no dict, which the
\* except clause of handle_request swallows) and the insert is sent
SaveStart(w) ==
    /\ pc[w] = "save"
    /\ IF Result(req[w]).t # "dict"
       THEN /\ req' = [req EXCEPT ![w] = Return(req[w], Result(req[w]))]
            /\ answers' = Answered(req[w])
            /\ pc' = [pc EXCEPT ![w] = "done"]
       ELSE /\ req' = [req EXCEPT ![w].invoked = @ \cup {"memory"},
                                  ![w].log = Append(@, "memory")]
            /\ pc' = [pc EXCEPT ![w] = "saving"]
            /\ UNCHANGED answers
    /\ UNCHANGED <<redis, decision_memory, calls, rateVars, engineVars>>

\* a plausible slip: save_decision without its except clause and called outside
\* the try of handle_request, so that a failed insert ends the call
AfterSave_Propagating(call, inserted) ==
    IF inserted
    THEN Return([call EXCEPT !.mem = "ok"], Result(call))
    ELSE Raise([call EXCEPT !.mem = "failed"], "MemoryError")

\* the call record once save_decision has come back (inserted: the insert
\* succeeded): a failure is printed and the call returns as it would have
AfterSave(call, inserted) ==
    Return([call EXCEPT !.mem = IF inserted THEN "ok" ELSE "failed"], Result(call))

\* a plausible slip: the row appended whether or not the insert succeeded
RowsAfterSave_Always(call, inserted) ==
    Append(decision_memory,
           DecisionMemory(call.id, call.business_id,
                          IF Len(call.extracted.competitors) > 0
                          THEN call.extracted.competitors[1].name ELSE "Unknown",
                          asdict(call.extracted), Result(call),
                          IF call.path = "hit" THEN Result(call).v.confidence
                          ELSE call.confidence,
                          call.context_hash, call.path = "hit"))

\* the decision_memory table once save_decision has come back
RowsAfterSave(call, inserted) ==
    IF inserted
    THEN Append(decision_memory,
                DecisionMemory(call.id, call.business_id,
                               IF Len(call.extracted.competitors) > 0
                               THEN call.extracted.competitors[1].name ELSE "Unknown",
                               asdict(call.extracted), Result(call),
                               IF call.path = "hit" THEN Result(call).v.confidence
                               ELSE call.confidence,
                               call.context_hash, call.path = "hit"))
    ELSE decision_memory

\* save_decision comes back, having inserted the row or failed, and
\* handle_request returns
SaveFinish(w, inserted) ==
    /\ pc[w] = "saving"
    /\ decision_memory' = RowsAfterSave(req[w], inserted)
    /\ req' = [req EXCEPT ![w] = AfterSave(req[w], inserted)]
    /\ answers' = Answered(req[w])
    /\ pc' = [pc EXCEPT ![w] = "done"]
    /\ UNCHANGED <<redis, calls, rateVars, engineVars>>

\* the call is over; the next one can be made
Reset(w) ==
    /\ pc[w] = "done"
    /\ pc' = [pc EXCEPT ![w] = "idle"]
    /\ req' = [req EXCEPT ![w] = NoCall]
    /\ UNCHANGED <<redis, decision_memory, calls, answers, rateVars, engineVars>>

\* the store is observed by redis.get alone, so what happens to an entry
\* between two writes is taken when a call is about to look the entry up
AboutToRead(key) ==
    \E w \in DOMAIN pc : pc[w] = "lookup" /\ req[w].context_hash = key

\* the store drops an entry whose TTL has run out
Expire(key) ==
    /\ Live(key)
    /\ AboutToRead(key)
    /\ redis' = [redis EXCEPT ![key].expired = TRUE]
    /\ UNCHANGED <<pc, req, decision_memory, calls, answers, rateVars, engineVars>>

\* the texts a damaged entry can hold: no JSON at all, or JSON of another value
DamagedTexts == {Garbled, json_dumps(PyList)}

\* an entry of the store is damaged
Corrupt(key, text) ==
    /\ Live(key)
    /\ AboutToRead(key)
    /\ redis[key].text \notin DamagedTexts
    /\ redis' = [redis EXCEPT ![key] = Entry(text, 0)]
    /\ UNCHANGED <<pc, req, decision_memory, calls, answers, rateVars, engineVars>>

CallerIds == {None, "b1", "b2"}

Keys == {hash_context(asdict(c)) : c \in PipelineContexts}

AllReplies ==
    {ReplyError, ReplyNone}
    \cup {ReplyOf(type, redis[k].text) : type \in {"str", "bytes", "dict"}, k \in DOMAIN redis}

Next ==
    \/ \E w \in Workers, t \in Texts, b \in CallerIds, m \in BOOLEAN : Begin(w, t, b, m)
    \/ \E w \in Workers, b \in CallerIds, m \in BOOLEAN, ok \in BOOLEAN :
           BeginFromBusiness(w, b, m, ok, PlainText)
    \/ \E w \in Workers, ok \in BOOLEAN, c \in PipelineContexts : Extract(w, ok, c)
    \/ \E w \in Workers, reply \in AllReplies : Lookup(w, reply)
    \/ \E w \in Workers, ok \in BOOLEAN, a \in AdvisorOutputs : DecideAndExplain(w, ok, a)
    \/ \E w \in Workers, up \in BOOLEAN : Store(w, up)
    \/ \E w \in Workers : SaveStart(w)
    \/ \E w \in Workers, ok \in BOOLEAN : SaveFinish(w, ok)
    \/ \E w \in Workers : Reset(w)
    \/ \E k \in Keys : Expire(k)
    \/ \E k \in Keys, text \in DamagedTexts : Corrupt(k, text)

Spec == Init /\ [][Next]_vars

-----------------------------------------------------------------------------
(* Claims about handle_request, checked under Spec *)

Downstream == {"extractor", "cache", "engine", "explainer", "memory"}

\* C1: whenever an input-side gate (content, provenance, rate limit, business
\* access) reports a violation for a request, the call raises
\* GuardrailException and never invokes the extractor, the cache, the rule
\* engine, the Explainer or the memory store.
C1_BlockedBeforePipeline ==
    \A w \in Workers :
        req[w].violations # <<>>
            => /\ pc[w] = "done"
               /\ req[w].outcome = "GuardrailException"
               /\ req[w].invoked \cap Downstream = {}

\* a call blocked by the content gate, the provenance gate and the rate limiter
C1_Witness ==
    \E w \in Workers :
        /\ pc[w] = "done"
        /\ req[w].outcome = "GuardrailException"
        /\ Len(req[w].violations) = 3
        /\ req[w].violations[3].violation_type = "rate_limit_exceeded"

C4_FailOpen ==
    \A w \in Workers :
        req[w].lookup \in {"unreachable", "corrupted", "undecodable"}
            => /\ req[w].cached = PyNone
               /\ req[w].path = "miss"
               /\ req[w].outcome \in {"", "returned", "ExplainerError"}

\* the rows of decision_memory a call has appended
RowsOf(id) == {k \in DOMAIN decision_memory : decision_memory[k].decision_id = id}

\* C8 as stated: every call that returns a response, on a cache hit as on a
\* miss, appends exactly one DecisionMemoryRecord, and a call that is blocked
\* or fails appends none.
C8_OneRowPerResponse ==
    \A w \in Workers :
        pc[w] = "done"
            => Cardinality(RowsOf(req[w].id))
                  = IF req[w].outcome = "returned" THEN 1 ELSE 0

\* C8 as amended: a call appends exactly one DecisionMemoryRecord when it
\* returns a response, enable_memory is set, a business id is given and the
\* insert succeeds, on a cache hit as on a miss; in every other case, and when
\* it is blocked or fails, it appends none.
C8_OneRowWhenSaved ==
    \A w \in Workers :
        /\ Cardinality(RowsOf(req[w].id)) <= 1
        /\ pc[w] = "done"
              => Cardinality(RowsOf(req[w].id))
                    = IF /\ req[w].outcome = "returned"
                         /\ req[w].enable_memory
                         /\ IsTruthyId(req[w].business_id)
                         /\ req[w].mem = "ok"
                      THEN 1 ELSE 0
        /\ \A k \in RowsOf(req[w].id) :
               /\ decision_memory[k].cache_hit = (req[w].path = "hit")
               /\ decision_memory[k].context_hash = req[w].context_hash

\* a call answered from the cache has appended its row
C8_Witness ==
    \E w \in Workers :
        /\ pc[w] = "done"
        /\ req[w].outcome = "returned"
        /\ req[w].path = "hit"
        /\ \E k \in RowsOf(req[w].id) : decision_memory[k].cache_hit

\* C9: a failure of the memory store while saving never changes the outcome:
\* the call raises nothing and returns the response it returns when the write
\* succeeds (the cached value on a hit, the built response on a miss).
C9_SaveFailureSwallowed ==
    \A w \in Workers :
        req[w].mem \in {"ok", "failed"}
            => /\ req[w].outcome = "returned"
               /\ req[w].returned = IF req[w].path = "hit" THEN req[w].cached
                                    ELSE req[w].response
               /\ req[w].returned.t = "dict"

\* a call whose insert failed has returned
C9_Witness ==
    \E w \in Workers :
        /\ pc[w] = "done"
        /\ req[w].mem = "failed"
        /\ req[w].outcome = "returned"
        /\ RowsOf(req[w].id) = {}

\* how often a call has invoked a collaborator
Invocations(call, who) == Len(SelectSeq(call.log, LAMBDA x : x = who))

\* the entries of the store a call has written
EntriesOf(id) == {k \in DOMAIN redis : redis[k].by = id}

\* C13: when the extractor or the Explainer fails, handle_request fails and
\* returns no decision, has written nothing to the cache and nothing to the
\* memory store, and has invoked the extractor and the Explainer at most once
\* each.
C13_HardStop ==
    \A w \in Workers :
        /\ Invocations(req[w], "extractor") <= 1
        /\ Invocations(req[w], "explainer") <= 1
        /\ req[w].outcome \in {"ExtractorError", "ExplainerError"}
              => /\ pc[w] = "done"
                 /\ req[w].returned = PyNone
                 /\ Invocations(req[w], "cache_set") = 0
                 /\ Invocations(req[w], "memory") = 0
                 /\ EntriesOf(req[w].id) = {}
                 /\ RowsOf(req[w].id) = {}
                 /\ req[w].outcome = "ExtractorError"
                       => req[w].log = <<"extractor">>
                 /\ req[w].outcome = "ExplainerError"
                       => req[w].log = <<"extractor", "cache_get", "engine", "explainer">>

\* a call has failed in the Explainer, after a miss on a store and a memory
\* that earlier calls have written to
C13_Witness ==
    \E w \in Workers :
        /\ req[w].outcome = "ExplainerError"
        /\ req[w].lookup = "absent"
        /\ WantsMemory(req[w])
        /\ redis # <<>>
        /\ decision_memory # <<>>

\* C14: handle_request called with empty text or with text longer than 3000
\* characters fails with ValueError and returns no decision.
C14_ValueError ==
    \A w \in Workers :
        (pc[w] # "idle"
         /\ (req[w].raw_text.length = 0 \/ req[w].raw_text.length > 3000))
            => /\ pc[w] = "done"
               /\ req[w].outcome = "ValueError"
               /\ req[w].returned = PyNone

\* C10: the memory write is fire-and-forget: while the append of the
\* DecisionMemoryRecord is under way the call does not wait for it, the
\* response has been returned.
C10_FireAndForget ==
    \A w \in Workers :
        pc[w] = "saving" => req[w].outcome = "returned"

-----------------------------------------------------------------------------
(* SpecOutput: handle_request with the rule engine replaced by a stub, so that *)
(* the output gate sees decisions the rules of rules.py never produce          *)

\* what the stub returns: a forbidden focus, a wait with high urgency, both at
\* once, and a decision the output gate lets through
StubDecisions ==
    { StrategyDecision("positioning_response", "price_war", "medium",
                       <<"feature_matching">>),
      StrategyDecision("wait_and_observe", "monitoring", "high", <<"hasty_reactions">>),
      StrategyDecision("wait_and_observe", "direct_attack", "high", <<>>),
      StrategyDecision("positioning_response", "clarity_and_simplicity", "medium",
                       <<"price_war", "feature_matching">>) }

NextOutput ==
    \/ \E w \in Workers, b \in {None, "b1"}, m \in BOOLEAN : Begin(w, PlainText, b, m)
    \/ \E w \in Workers : Extract(w, TRUE, NoCompetitors)
    \/ \E w \in Workers, reply \in AllReplies : Lookup(w, reply)
    \/ \E w \in Workers, d \in StubDecisions, a \in AdvisorOutputs :
           DecideStubbed(w, d, TRUE, a)
    \/ \E w \in Workers, up \in BOOLEAN : Store(w, up)
    \/ \E w \in Workers : SaveStart(w)
    \/ \E w \in Workers, ok \in BOOLEAN : SaveFinish(w, ok)
    \/ \E w \in Workers : Reset(w)

SpecOutput == Init /\ [][NextOutput]_vars

\* the fields of the fixed fallback the claim names
IsFallback(d) ==
    /\ d.best_move = "wait_and_observe"
    /\ d.focus = "monitoring"
    /\ d.urgency = "low"
    /\ d.avoid = <<>>

\* C11: when the output gate reports a violation for the assembled response,
\* handle_request raises nothing and returns the fixed fallback
\* (wait_and_observe, monitoring, low, empty avoid list); what it writes to the
\* cache under the request's fingerprint is that fallback, and what it records
\* in memory, under the conditions of any completed request, is that fallback
\* with cache_hit false.
C11_OutputFallback ==
    \A w \in Workers :
        req[w].flagged
            => /\ req[w].outcome \in {"", "returned"}
               /\ req[w].response.t = "dict"
               /\ IsFallback(req[w].response.v)
               /\ req[w].outcome = "returned" => req[w].returned = req[w].response
               /\ req[w].stored
                     => /\ Live(req[w].context_hash)
                        /\ redis[req[w].context_hash]
                              = Entry(json_dumps(req[w].response), req[w].id)
               /\ \A k \in RowsOf(req[w].id) :
                      /\ decision_memory[k].strategy_type = "wait_and_observe"
                      /\ decision_memory[k].focus = "monitoring"
                      /\ decision_memory[k].urgency = "low"
                      /\ decision_memory[k].avoid = <<>>
                      /\ ~decision_memory[k].cache_hit
               /\ (pc[w] = "done" /\ WantsMemory(req[w]) /\ req[w].mem = "ok")
                     => Cardinality(RowsOf(req[w].id)) = 1

\* a call whose assembled response the output gate refused has returned the
\* fallback, cached it and recorded it
C11_Witness ==
    \E w \in Workers :
        /\ req[w].flagged
        /\ pc[w] = "done"
        /\ req[w].outcome = "returned"
        /\ IsFallback(req[w].returned.v)
        /\ req[w].stored
        /\ Cardinality(RowsOf(req[w].id)) = 1

-----------------------------------------------------------------------------
(* SpecThreads: check_rate_limit of the one guardrails object entered by       *)
(* several threads for the same identity. The method takes no lock, so the     *)
(* threads interleave between its statements.                                  *)

Threads == {"t1", "t2", "t3"}

\* the requests already in the history, all of the current minute
MaxEarlier == 12

\* the locals of a thread in check_rate_limit: history, whether the list it
\* names is the one request_history holds, and result
NoLocals == [history |-> <<>>, installed |-> FALSE, result |-> NewResult, before |-> 0]

InitThreads ==
    /\ now = 0
    /\ \E k \in 0..MaxEarlier : request_history = [b \in {"b1"} |-> [i \in 1..k |-> 0]]
    /\ rl_log = <<>>
    /\ pc = [t \in Threads |-> "clean"]
    /\ req = [t \in Threads |-> [NoLocals EXCEPT !.before = Len(request_history["b1"])]]
    /\ redis = <<>>
    /\ decision_memory = <<>>
    /\ calls = 0
    /\ answers = <<>>
    /\ eng_ctx = OtherContext
    /\ eng_log = <<>>

\* history = [ts for ts in history if now - ts < timedelta(days=1)]: a new list
CleanOld(t, business_id) ==
    /\ pc[t] = "clean"
    /\ req' = [req EXCEPT ![t].history =
                  PruneOld(HistoryOf(request_history, business_id), now)]
    /\ pc' = [pc EXCEPT ![t] = "install"]
    /\ UNCHANGED <<request_history, rl_log, now, redis, decision_memory, calls,
                   answers, engineVars>>

\* self.request_history[business_id] = history: the list of this thread takes
\* the place of the one that was there; a thread whose list that was keeps it,
\* with what had been appended to it, and sees no later append
Install(t, business_id) ==
    /\ pc[t] = "install"
    /\ request_history' = [request_history EXCEPT ![business_id] = req[t].history]
    /\ req' = [u \in Threads |->
                  IF u = t THEN [req[u] EXCEPT !.installed = TRUE]
                  ELSE IF req[u].installed
                  THEN [req[u] EXCEPT !.installed = FALSE,
                                      !.history = request_history[business_id]]
                  ELSE req[u]]
    /\ pc' = [pc EXCEPT ![t] = "count"]
    /\ UNCHANGED <<rl_log, now, redis, decision_memory, calls, answers, engineVars>>

\* the list the local `history` of a thread names, as it is now
HistoryList(t, business_id) ==
    IF req[t].installed THEN request_history[business_id] ELSE req[t].history

\* the three counts over history and the limit checks
CountAndCheck(t, business_id) ==
    /\ pc[t] = "count"
    /\ req' = [req EXCEPT ![t].result =
                  RateLimitResult(HistoryList(t, business_id), now)]
    /\ pc' = [pc EXCEPT ![t] = "record"]
    /\ UNCHANGED <<request_history, rl_log, now, redis, decision_memory, calls,
                   answers, engineVars>>

\* if result.passed: self.request_history[business_id].append(now); return result
Record(t, business_id) ==
    /\ pc[t] = "record"
    /\ request_history' =
           IF req[t].result.passed
           THEN [request_history EXCEPT ![business_id] = Append(@, now)]
           ELSE request_history
    /\ rl_log' = [b \in DOMAIN rl_log \cup {business_id} |->
                     IF b = business_id
                     THEN Append(HistoryOf(rl_log, business_id),
                                 [at |-> now, passed |-> req[t].result.passed,
                                  violations |-> req[t].result.violations])
                     ELSE rl_log[b]]
    /\ pc' = [pc EXCEPT ![t] = "done"]
    /\ UNCHANGED <<req, now, redis, decision_memory, calls, answers, engineVars>>

NextThreads ==
    \/ \E t \in Threads : CleanOld(t, "b1")
    \/ \E t \in Threads : Install(t, "b1")
    \/ \E t \in Threads : CountAndCheck(t, "b1")
    \/ \E t \in Threads : Record(t, "b1")

SpecThreads == InitThreads /\ [][NextThreads]_vars

\* how many of n checks made one after the other at time t pass
RECURSIVE Admitted(_, _, _, _)
Admitted(history, business_id, t, n) ==
    IF n = 0 THEN 0
    ELSE LET out == check_rate_limit(history, business_id, t) IN
         (IF out.result.passed THEN 1 ELSE 0)
            + Admitted(out.history, business_id, t, n - 1)

\* the checks that have returned with a passing result
PassedChecks(business_id) ==
    Len(SelectSeq(HistoryOf(rl_log, business_id), LAMBDA e : e.passed))

\* C12: concurrent checks for one identity behave as if they ran one after
\* another: once all have returned, the history holds the timestamp of every
\* check that passed, and no more checks have passed than pass when the same
\* checks are made in sequence.
C12_Serialized ==
    (\A t \in Threads : pc[t] = "done")
        => /\ Len(request_history["b1"]) = req["t1"].before + PassedChecks("b1")
           /\ PassedChecks("b1")
                 <= Admitted([b \in {"b1"} |-> [i \in 1..req["t1"].before |-> 0]],
                             "b1", now, Cardinality(Threads))

-----------------------------------------------------------------------------
(* SpecScreen: handle_request on texts given word by word, so that the         *)
(* patterns of the input gates are matched against what the text says          *)

\* the lower-cased words texts are made of, and len(word)
Chars ==
    [steal |-> 5, customer |-> 8, data |-> 4, competitor |-> 10, stolen |-> 6]

Words == DOMAIN Chars

\* the text of scenario_2_blocked_by_guardrails, lower-cased
DemoPhrase ==
    <<"let's", "hack", "into", "our", "competitor's", "database", "and", "steal",
      "their", "customer", "list.", "we", "can", "use", "this", "to", "undercut",
      "them.">>

DemoChars ==
    [w \in {DemoPhrase[i] : i \in DOMAIN DemoPhrase} |->
        CASE w \in {"we", "to"} -> 2
          [] w \in {"our", "and", "can", "use"} -> 3
          [] w \in {"hack", "into", "this"} -> 4
          [] w \in {"let's", "steal", "their", "list.", "them."} -> 5
          [] w \in {"customer", "database", "undercut"} -> 8
          [] w = "competitor's" -> 12]

CharsOf(word) == IF word \in Words THEN Chars[word] ELSE DemoChars[word]

\* len(text) of the words joined by single spaces
RECURSIVE TextLength(_)
TextLength(words) ==
    IF words = <<>> THEN 0
    ELSE CharsOf(Head(words)) + (IF Len(words) > 1 THEN 1 ELSE 0)
            + TextLength(Tail(words))

\* whether a word begins with, ends with or contains a piece of a pattern, for
\* the words above
StartsWith(word, piece) ==
    word = piece \/ <<word, piece>> \in {<<"competitor's", "competitor">>,
                                         <<"database", "data">>}
EndsWith(word, piece) == word = piece
Contains(word, piece) == StartsWith(word, piece) \/ EndsWith(word, piece)

\* re.search(r"a\s+b", text): a word ending in a followed by a word starting
\* with b
SearchPair(words, a, b) ==
    \E i \in 1..(Len(words) - 1) : EndsWith(words[i], a) /\ StartsWith(words[i + 1], b)

\* re.search(r"a", text) and `a in text` for a pattern without white space
SearchWord(words, a) == \E i \in DOMAIN words : Contains(words[i], a)

\* any(re.search(pattern, text_lower) for pattern in SENSITIVE_PATTERNS)
SensitiveMatch(words) ==
    \/ SearchPair(words, "hack", "competitor")
    \/ SearchWord(words, "ddos")
    \/ SearchWord(words, "sabotage")
    \/ SearchPair(words, "illegal", "activity")
    \/ \E what \in {"data", "information", "secrets"} : SearchPair(words, "steal", what)
    \/ SearchWord(words, "bribe")
    \/ SearchWord(words, "blackmail")

\* any(source in text_lower for source in FORBIDDEN_SOURCES)
ForbiddenSourceMatch(words) ==
    \/ \E source \in {"leaked", "hacked", "stolen", "confidential"} :
           SearchWord(words, source)
    \/ SearchPair(words, "internal", "document")
    \/ SearchPair(words, "employee", "said")

\* _is_spam(text): more than 5 words of which fewer than 3 in 10 are distinct
\* (no word here has 20 letters)
IsSpam(words) ==
    /\ Len(words) > 5
    /\ 10 * Cardinality({words[i] : i \in DOMAIN words}) < 3 * Len(words)

\* the raw text made of words, as the gates see it, with its words
Phrase(words) ==
    RawText(TextLength(words), TextLength(words), SensitiveMatch(words),
            ForbiddenSourceMatch(words), FALSE, IsSpam(words))
        @@ [words |-> words]

MaxWords == 4

Phrases ==
    {DemoPhrase} \cup UNION {[1..n -> Words] : n \in 3..MaxWords}

NextScreen ==
    \/ \E w \in Workers, words \in Phrases, b \in {None, "b1"} :
           Begin(w, Phrase(words), b, FALSE)
    \/ \E w \in Workers, ok \in BOOLEAN : Extract(w, ok, NoCompetitors)
    \/ \E w \in Workers : Reset(w)

SpecScreen == Init /\ [][NextScreen]_vars

\* the words of phrase occur in words, one after the other
Says(words, phrase) ==
    \E i \in 0..(Len(words) - Len(phrase)) :
        \A k \in DOMAIN phrase : words[i + k] = phrase[k]

\* C15: every input of admissible length that contains the phrase "steal
\* customer data", and the text of the demo scenario, is rejected by the input
\* gates: handle_request raises GuardrailException and extract_signals is not
\* called.
C15_StealCustomerData ==
    \A w \in Workers :
        (/\ pc[w] # "idle"
         /\ req[w].raw_text.length >= min_length
         /\ req[w].raw_text.length <= max_length
         /\ \/ Says(req[w].raw_text.words, <<"steal", "customer", "data">>)
            \/ req[w].raw_text.words = DemoPhrase)
            => /\ pc[w] = "done"
               /\ req[w].outcome = "GuardrailException"
               /\ "extractor" \notin req[w].invoked

-----------------------------------------------------------------------------
(* controller/memory.py: the read side, MemoryStore and MemoryInsights *)

\* a row of the decision_memory table, by the columns the read side looks at;
\* timestamps are in seconds
MemoryRow(business_id, timestamp, competitor_name, strategy_type, urgency) ==
    [decision_id |-> 0, business_id |-> business_id, timestamp |-> timestamp,
     competitor_name |-> competitor_name, strategy_type |-> strategy_type,
     urgency |-> urgency]

\* .order("timestamp", desc=True): the rows by falling timestamp
RECURSIVE OrderDesc(_)
OrderDesc(rows) ==
    IF rows = <<>> THEN <<>>
    ELSE LET i == CHOOSE i \in DOMAIN rows :
                     /\ \A j \in DOMAIN rows : rows[j].timestamp <= rows[i].timestamp
                     /\ \A j \in 1..(i - 1) : rows[j].timestamp < rows[i].timestamp
         IN  <<rows[i]>>
                \o OrderDesc(SubSeq(rows, 1, i - 1) \o SubSeq(rows, i + 1, Len(rows)))

\* get_recent_decisions(business_id, limit) on the table
get_recent_decisions(table, business_id, limit) ==
    LET mine == OrderDesc(SelectSeq(table, LAMBDA d : d.business_id = business_id))
    IN  SubSeq(mine, 1, IF Len(mine) < limit THEN Len(mine) ELSE limit)

\* sum(1 for d in decisions if d.urgency == urgency)
UrgencyCount(decisions, urgency) ==
    Len(SelectSeq(decisions, LAMBDA d : d.urgency = urgency))

\* competitor_counts[name]
CompetitorCount(decisions, name) ==
    Len(SelectSeq(decisions, LAMBDA d : d.competitor_name = name))

\* max(competitor_counts.values())
MaxCompetitorCount(decisions) ==
    LET names == {decisions[i].competitor_name : i \in DOMAIN decisions}
    IN  CHOOSE c \in {CompetitorCount(decisions, n) : n \in names} :
            \A n \in names : CompetitorCount(decisions, n) <= c

\* a quotient num / den of the code, kept exact; a > b for num / den is
\* decided on whole numbers (for the samples of at most 20 records the floats
\* of the code compare the same way)
Quotient(num, den) == [num |-> num, den |-> den]
Exceeds(q, a, b) == q.num * b > a * q.den

NoReport == [status |-> "None", severity |-> "", decisions_per_week |-> Quotient(0, 1),
             high_urgency_rate |-> Quotient(0, 1)]

\* a plausible slip: the zero time span not caught before the division
detect_reactive_spiral_NoZeroGuard(table, business_id) ==
    LET recent == get_recent_decisions(table, business_id, 20)
        n == Len(recent)
    IN  IF n < 5 THEN NoReport
        ELSE LET time_span == (recent[1].timestamp - recent[n].timestamp) \div Day IN
             IF time_span = 0 THEN [NoReport EXCEPT !.status = "ZeroDivisionError"]
             ELSE LET decisions_per_week == Quotient(n * 7, time_span)
                      high_urgency_rate == Quotient(UrgencyCount(recent, "high"), n)
                      max_competitor_focus == Quotient(MaxCompetitorCount(recent), n)
                      is_spiral == /\ Exceeds(decisions_per_week, 15, 10)
                                   /\ Exceeds(high_urgency_rate, 6, 10)
                                   /\ Exceeds(max_competitor_focus, 5, 10)
                  IN  IF is_spiral
                      THEN [status |-> "spiral_detected",
                            severity |-> IF Exceeds(decisions_per_week, 3, 1)
                                         THEN "high" ELSE "moderate",
                            decisions_per_week |-> decisions_per_week,
                            high_urgency_rate |-> high_urgency_rate]
                      ELSE NoReport

\* MemoryInsights.detect_reactive_spiral(business_id): the report, or None
detect_reactive_spiral(table, business_id) ==
    LET recent == get_recent_decisions(table, business_id, 20)
        n == Len(recent)
    IN  IF n < 5 THEN NoReport
        ELSE LET time_span == (recent[1].timestamp - recent[n].timestamp) \div Day IN
             IF time_span = 0 THEN NoReport
             ELSE LET decisions_per_week == Quotient(n * 7, time_span)
                      high_urgency_rate == Quotient(UrgencyCount(recent, "high"), n)
                      max_competitor_focus == Quotient(MaxCompetitorCount(recent), n)
                      is_spiral == /\ Exceeds(decisions_per_week, 15, 10)
                                   /\ Exceeds(high_urgency_rate, 6, 10)
                                   /\ Exceeds(max_competitor_focus, 5, 10)
                  IN  IF is_spiral
                      THEN [status |-> "spiral_detected",
                            severity |-> IF Exceeds(decisions_per_week, 3, 1)
                                         THEN "high" ELSE "moderate",
                            decisions_per_week |-> decisions_per_week,
                            high_urgency_rate |-> high_urgency_rate]
                      ELSE NoReport

\* build_business_profile(business_id, days) at time t: avg_urgency and
\* total_decisions of the profile, or None when the window holds no row
NoProfile == [status |-> "None", total_decisions |-> 0, avg_urgency |-> ""]

build_business_profile(table, business_id, days, t) ==
    LET cutoff == t - days * Day
        decisions == SelectSeq(table, LAMBDA d : /\ d.business_id = business_id
                                                 /\ d.timestamp >= cutoff)
        urgency_counts == [u \in {"low", "medium", "high"} |->
                              UrgencyCount(decisions, u)]
    IN  IF decisions = <<>> THEN NoProfile
        ELSE [status |-> "profile",
              total_decisions |-> Len(decisions),
              avg_urgency |->
                  IF urgency_counts["high"] > urgency_counts["medium"] THEN "high"
                  ELSE IF urgency_counts["medium"] > urgency_counts["low"] THEN "medium"
                  ELSE "low"]

-----------------------------------------------------------------------------
(* SpecInsights: the read side called on tables of decisions *)

MaxRows == 22
MaxGap == 12
MaxBucket == 3
MaxReads == 1

HalfDay == Day \div 2

\* the time of the reads
ReadTime == 400 * Day

\* n decisions of b1, one every gap half days up to ReadTime, the newest
\* `high` of them with high urgency and the oldest `about` of them naming
\* competitor A, and one decision of b2 after them
SpiralTable(n, high, about, gap) ==
    [i \in 1..n |->
        MemoryRow("b1", ReadTime - (n - i) * gap * HalfDay,
                  IF i <= about THEN "A" ELSE IF i % 2 = 0 THEN "B" ELSE "C",
                  "positioning_response",
                  IF i > n - high THEN "high" ELSE "medium")]
    \o <<MemoryRow("b2", ReadTime, "A", "pricing_response", "high")>>

SpiralTables ==
    {SpiralTable(n, high, about, gap) :
        n \in 0..MaxRows, high \in 0..MaxRows, about \in {0, 3, 11, MaxRows},
        gap \in 0..MaxGap}

\* decisions of b1 in the window of 90 days, so many with each urgency, after
\* old decisions of high urgency from before the window
ProfileTable(low, medium, high, old) ==
    [i \in 1..old |-> MemoryRow("b1", ReadTime - 100 * Day, "A", "wait_and_observe", "high")]
    \o [i \in 1..low |-> MemoryRow("b1", ReadTime - Day, "A", "wait_and_observe", "low")]
    \o [i \in 1..medium |-> MemoryRow("b1", ReadTime - Day, "B", "positioning_response", "medium")]
    \o [i \in 1..high |-> MemoryRow("b1", ReadTime - Day, "B", "pricing_response", "high")]

ProfileTables ==
    {ProfileTable(low, medium, high, old) :
        low \in 0..MaxBucket, medium \in 0..MaxBucket, high \in 0..MaxBucket,
        old \in {0, MaxBucket}}

InitInsights ==
    /\ decision_memory \in SpiralTables \cup ProfileTables
    /\ now = ReadTime
    /\ answers = <<>>
    /\ request_history = <<>>
    /\ rl_log = <<>>
    /\ pc = <<>>
    /\ req = <<>>
    /\ redis = <<>>
    /\ calls = 0
    /\ eng_ctx = OtherContext
    /\ eng_log = <<>>

\* memory_insights.detect_reactive_spiral(business_id) is called
DetectSpiral(business_id) ==
    /\ Len(answers) < MaxReads
    /\ answers' = Append(answers,
                         [call |-> "detect_reactive_spiral", business_id |-> business_id,
                          returned |-> detect_reactive_spiral(decision_memory, business_id)])
    /\ UNCHANGED <<decision_memory, now, request_history, rl_log, pc, req, redis,
                   calls, engineVars>>

\* memory_store.build_business_profile(business_id) is called, days = 90
BuildProfile(business_id) ==
    /\ Len(answers) < MaxReads
    /\ answers' = Append(answers,
                         [call |-> "build_business_profile", business_id |-> business_id,
                          returned |-> build_business_profile(decision_memory,
                                                              business_id, 90, now)])
    /\ UNCHANGED <<decision_memory, now, request_history, rl_log, pc, req, redis,
                   calls, engineVars>>

NextInsights ==
    \/ \E b \in {"b1", "b2"} : DetectSpiral(b)
    \/ \E b \in {"b1", "b2"} : BuildProfile(b)

SpecInsights == InitInsights /\ [][NextInsights]_vars

-----------------------------------------------------------------------------
(* Claims about the read side of the memory *)

\* what the calls of one operation returned, with the business asked about
ReturnedBy(call) == {answers[i] : i \in {j \in DOMAIN answers : answers[j].call = call}}

\* the sample the detector looks at: the 20 most recent records at most
SampleOf(business_id) == get_recent_decisions(decision_memory, business_id, 20)

\* the whole days between the newest and the oldest record of a sample
SpanDays(sample) == (sample[1].timestamp - sample[Len(sample)].timestamp) \div Day

\* the records with high urgency in a sample
HighIn(sample) == Cardinality({i \in DOMAIN sample : sample[i].urgency = "high"})

\* whether some competitor is named in more than half of the sample
OneCompetitorDominates(sample) ==
    \E i \in DOMAIN sample :
        2 * Cardinality({j \in DOMAIN sample :
                            sample[j].competitor_name = sample[i].competitor_name})
            > Len(sample)

C18_WitnessHigh ==
    \E a \in ReturnedBy("detect_reactive_spiral") :
        a.returned.status = "spiral_detected" /\ a.returned.severity = "high"

C18_WitnessModerate ==
    \E a \in ReturnedBy("detect_reactive_spiral") :
        /\ a.returned.status = "spiral_detected" /\ a.returned.severity = "moderate"
        /\ Len(SelectSeq(decision_memory, LAMBDA d : d.business_id = a.business_id)) > 20

C18_WitnessZeroSpan ==
    \E a \in ReturnedBy("detect_reactive_spiral") :
        /\ Len(SampleOf(a.business_id)) >= 5
        /\ SpanDays(SampleOf(a.business_id)) = 0
        /\ a.returned.status = "None"

WindowOf(business_id) ==
    SelectSeq(decision_memory, LAMBDA d : /\ d.business_id = business_id
                                          /\ d.timestamp >= now - 90 * Day)

\* the records of one urgency in a window
InBucket(window, urgency) ==
    Cardinality({i \in DOMAIN window : window[i].urgency = urgency})

\* low before medium before high
BucketRank == [low |-> 1, medium |-> 2, high |-> 3]

\* the bucket with the most records, the lower one of two with as many
Dominant(window) ==
    CHOOSE u \in DOMAIN BucketRank :
        \A v \in DOMAIN BucketRank \ {u} :
            \/ InBucket(window, u) > InBucket(window, v)
            \/ InBucket(window, u) = InBucket(window, v) /\ BucketRank[u] < BucketRank[v]

\* C19: the avg_urgency of a profile is the bucket among low, medium and high
\* with the most records in the window, a tie going to the lower bucket.
\* Violated: the code compares high with medium first and never with low, so
\* one high record against several low ones and no medium one gives "high".
C19_DominantUrgency ==
    \A a \in ReturnedBy("build_business_profile") :
        a.returned.status = "profile" =>
            a.returned.avg_urgency = Dominant(WindowOf(a.business_id))

-----------------------------------------------------------------------------
(* SpecHash: the fingerprint of two requests, and hash_context called on    *)
(* the same signals with the keys in another order                          *)

Requests == {1, 2}

HashTexts == {PlainText, RawText(80, 80, FALSE, FALSE, FALSE, FALSE)}

\* a context, and contexts that differ from it in one field
HashBase == ExtractedContext(<<Competitor("A", LeaderSignals)>>, <<"buzz", "churn">>, "comparison")

HashContexts ==
    {HashBase,
     [HashBase EXCEPT !.user_intent = "monitoring"],
     [HashBase EXCEPT !.market_signals = <<"churn", "buzz">>],
     [HashBase EXCEPT !.market_signals = <<>>],
     [HashBase EXCEPT !.competitors = <<>>],
     [HashBase EXCEPT !.competitors = <<Competitor("B", LeaderSignals)>>],
     [HashBase EXCEPT !.competitors = <<Competitor("A", [LeaderSignals EXCEPT !.price_info = "lower"])>>],
     [HashBase EXCEPT !.competitors = <<Competitor("A", [LeaderSignals EXCEPT !.sentiment = "neutral"])>>],
     [HashBase EXCEPT !.competitors = <<Competitor("A", LeaderSignals), Competitor("B", LeaderSignals)>>]}

Reverse(seq) == [i \in DOMAIN seq |-> seq[Len(seq) + 1 - i]]

\* the orders a dict of the three fields can have been filled in
TopOrders ==
    {o \in [1..3 -> {"competitors", "market_signals", "user_intent"}] :
        \A i, j \in 1..3 : o[i] = o[j] => i = j}

\* the same items as d, the top keys filled in the order top and, when inner
\* is set, the keys of every competitor and of its signals in reverse order
Reordered(d, top, inner) ==
    Dict(top,
         [d.at EXCEPT !.competitors =
             [k \in DOMAIN @ |->
                 IF inner
                 THEN Dict(Reverse(@[k].order),
                           [@[k].at EXCEPT !.signals = Dict(Reverse(@.order), @.at)])
                 ELSE @[k]]])

NoRequest(raw_text) ==
    [raw_text |-> raw_text, extracted |-> NoCompetitors,
     signals |-> asdict(NoCompetitors), context_hash |-> NoHash, other_hash |-> NoHash]

InitHash ==
    /\ req \in [Requests -> {NoRequest(t) : t \in HashTexts}]
    /\ pc = [i \in Requests |-> "extract"]
    /\ redis = <<>>
    /\ decision_memory = <<>>
    /\ calls = 0
    /\ answers = <<>>
    /\ now = 0
    /\ request_history = <<>>
    /\ rl_log = <<>>
    /\ eng_ctx = OtherContext
    /\ eng_log = <<>>

\* extracted = extract_signals(raw_text), whatever the extractor makes of the
\* text, and context_hash = hash_context(asdict(extracted))
Fingerprint(i, extracted) ==
    /\ pc[i] = "extract"
    /\ req' = [req EXCEPT ![i] = [@ EXCEPT !.extracted = extracted,
                                           !.context_hash = hash_context(asdict(extracted))]]
    /\ pc' = [pc EXCEPT ![i] = "hashed"]
    /\ UNCHANGED <<redis, decision_memory, calls, answers, rateVars, engineVars>>

\* hash_context called with a dict of the same items in another key order
FingerprintReordered(i, top, inner) ==
    /\ pc[i] = "hashed"
    /\ LET signals == Reordered(asdict(req[i].extracted), top, inner)
       IN  req' = [req EXCEPT ![i] = [@ EXCEPT !.signals = signals,
                                               !.other_hash = hash_context(signals)]]
    /\ pc' = [pc EXCEPT ![i] = "done"]
    /\ UNCHANGED <<redis, decision_memory, calls, answers, rateVars, engineVars>>

NextHash ==
    \/ \E i \in Requests, c \in HashContexts : Fingerprint(i, c)
    \/ \E i \in Requests, top \in TopOrders, inner \in BOOLEAN :
           FingerprintReordered(i, top, inner)

SpecHash == InitHash /\ [][NextHash]_vars

\* C17: the fingerprint depends on the extracted context only: requests with
\* equal extracted contexts have equal digests whatever their raw texts,
\* requests with contexts that differ in a field have different digests, and
\* the digest of the same items in another key order is the same digest.
C17_FingerprintOfContext ==
    /\ \A i, j \in Requests :
           (pc[i] # "extract" /\ pc[j] # "extract") =>
               ((req[i].extracted = req[j].extracted)
                   <=> (req[i].context_hash = req[j].context_hash))
    /\ \A i \in Requests :
           pc[i] = "done" => req[i].other_hash = req[i].context_hash
    /\ \A i, j \in Requests :
           (pc[i] = "done" /\ pc[j] = "done") =>
               ((req[i].extracted = req[j].extracted)
                   <=> (req[i].other_hash = req[j].other_hash))

\* C17 witness: two requests with different raw texts and the same extracted
\* context have the same digest, also for the signals in two other key orders
C17_Witness ==
    /\ pc[1] = "done" /\ pc[2] = "done"
    /\ req[1].raw_text # req[2].raw_text
    /\ req[1].extracted = req[2].extracted
    /\ req[1].extracted = HashBase
    /\ req[1].signals.order # req[2].signals.order
    /\ req[1].signals.order # asdict(HashBase).order
    /\ req[1].signals.at.competitors[1].order = <<"signals", "name">>
    /\ req[1].context_hash = req[2].context_hash
    /\ req[1].other_hash = req[2].other_hash

\* C17 witness of the other half: two requests with the same raw text whose
\* contexts differ in one signal have different digests
C17_WitnessDiffer ==
    /\ pc[1] = "done" /\ pc[2] = "done"
    /\ req[1].raw_text = req[2].raw_text
    /\ req[1].extracted = HashBase
    /\ req[2].extracted.competitors = <<Competitor("A", [LeaderSignals EXCEPT !.sentiment = "neutral"])>>
    /\ req[1].context_hash # req[2].context_hash

-----------------------------------------------------------------------------
(* SpecMemory: handle_request started on a memory store that already holds  *)
(* rows                                                                     *)

\* a row saved before the calls of this behaviour, under an id of its own
EarlierRow(decision_id, business_id, extracted, decision) ==
    DecisionMemory(decision_id, business_id,
                   IF Len(extracted.competitors) > 0
                   THEN extracted.competitors[1].name ELSE "Unknown",
                   asdict(extracted),
                   build_response(decision, Advisor("cut prices", "remembered", "high")),
                   "high", hash_context(asdict(extracted)), FALSE)

\* what the store can hold before the calls: nothing, or rows for the contexts
\* the calls are about with decisions the engine does not take for them
MemoryContents ==
    {<<>>,
     <<EarlierRow(-1, "b1", NoCompetitors,
                  StrategyDecision("pricing_response", "match_price", "high", <<>>))>>,
     <<EarlierRow(-1, "b2", OtherContext,
                  StrategyDecision("wait_and_observe", "monitor", "low", <<>>)),
       EarlierRow(-2, "b1", NoCompetitors,
                  StrategyDecision("positioning_response", "differentiate", "medium", <<>>))>>}

InitMemory ==
    /\ now = 0
    /\ decision_memory \in MemoryContents
    /\ pc = [w \in Workers |-> "idle"]
    /\ req = [w \in Workers |-> NoCall]
    /\ redis = <<>>
    /\ calls = 0
    /\ answers = <<>>
    /\ request_history = [b \in {"b2"} |-> Saturated]
    /\ rl_log = <<>>
    /\ eng_ctx = OtherContext
    /\ eng_log = <<>>

NextMemory ==
    \/ \E w \in Workers, b \in {None, "b1"}, m \in BOOLEAN : Begin(w, PlainText, b, m)
    \/ \E w \in Workers, c \in PipelineContexts : Extract(w, TRUE, c)
    \/ \E w \in Workers, reply \in AllReplies : Lookup(w, reply)
    \/ \E w \in Workers, a \in AdvisorOutputs : DecideAndExplain(w, TRUE, a)
    \/ \E w \in Workers, up \in BOOLEAN : Store(w, up)
    \/ \E w \in Workers : SaveStart(w)
    \/ \E w \in Workers, ok \in BOOLEAN : SaveFinish(w, ok)
    \/ \E w \in Workers : Reset(w)

SpecMemory == InitMemory /\ [][NextMemory]_vars

\* what a call returns by everything but the memory store: the value the cache
\* gave it when that is truthy, else the guarded response built from the
\* engine's decision for its extracted context and the advisor's output
WithoutMemory(call) ==
    IF Truthy(call.cached) THEN call.cached
    ELSE GuardedResponse(build_response(decide_strategy(call.extracted).decision,
                                        call.advisor))

\* the operations of save_decision in the log of a call
MemorySteps(call) == {i \in DOMAIN call.log : call.log[i] = "memory"}

\* C20: memory never affects decisions. Whatever the memory store holds, a call
\* that returns returns the value fixed by its input, its extraction result,
\* the cache and the advisor; the only step that touches the store is the
\* insert of save_decision, after everything that makes the response.
C20_MemoryNeverAffects ==
    \A w \in Workers :
        /\ (pc[w] = "done" /\ req[w].outcome = "returned")
               => req[w].returned = WithoutMemory(req[w])
        /\ \A i \in MemorySteps(req[w]) : i = Len(req[w].log)
        /\ \A k \in DOMAIN decision_memory :
               decision_memory[k].decision_id = req[w].id
                   => /\ pc[w] = "done"
                      /\ decision_memory[k].strategy_type = req[w].returned.v.best_move

\* C20 (steps): a step of handle_request leaves the memory store as it is or
\* appends one row to it; it never rewrites or removes what the store holds.
C20_StoreOnlyAppended ==
    [][\/ decision_memory' = decision_memory
       \/ /\ Len(decision_memory') = Len(decision_memory) + 1
          /\ SubSeq(decision_memory', 1, Len(decision_memory)) = decision_memory]_vars

\* C20 witness: a call of b1 computed a fresh response for a context for which
\* the store already held a row with another decision, returned the engine's
\* decision and added its own row
C20_Witness ==
    \E w \in Workers :
        /\ pc[w] = "done" /\ req[w].outcome = "returned" /\ req[w].path = "miss"
        /\ req[w].business_id = "b1" /\ req[w].mem = "ok"
        /\ req[w].extracted = NoCompetitors
        /\ \E k \in DOMAIN decision_memory :
               /\ decision_memory[k].decision_id < 0
               /\ decision_memory[k].business_id = "b1"
               /\ decision_memory[k].context_hash = req[w].context_hash
               /\ decision_memory[k].strategy_type # req[w].returned.v.best_move
        /\ \E k \in DOMAIN decision_memory : decision_memory[k].decision_id = req[w].id

-----------------------------------------------------------------------------
(* Claims about the guardrail results of handle_request *)

\* the lists of a sequence of lists, one after the other
RECURSIVE Concatenated(_)
Concatenated(lists) ==
    IF lists = <<>> THEN <<>> ELSE Head(lists) \o Concatenated(Tail(lists))

\* the calls whose validate_input has run
Validated == {w \in Workers : req[w].checks # <<>>}

\* C21: the result of validate_input has passed equal to the AND of the passed
\* flags of the gates that were run, and its violations and its warnings are
\* the gates' lists one after the other in the order content gate, provenance
\* gate, rate limiter, business-access gate (the last two only for a call with
\* a business id).
C21_AggregatedInOrder ==
    \A w \in Validated :
        LET checks == req[w].checks
            result == req[w].guardrail_result
        IN  /\ checks[1] = InputGuardrails_validate(req[w].raw_text)
            /\ checks[2] = validate_data_source(req[w].raw_text)
            /\ Len(checks) = IF IsTruthyId(req[w].business_id) THEN 4 ELSE 2
            /\ Len(checks) = 4 =>
                  /\ \A k \in DOMAIN checks[3].violations :
                         checks[3].violations[k].violation_type = "rate_limit_exceeded"
                  /\ checks[4] = validate_business_access(req[w].business_id)
            /\ result.passed = (\A i \in DOMAIN checks : checks[i].passed)
            /\ result.violations
                   = Concatenated([i \in DOMAIN checks |-> checks[i].violations])
            /\ result.warnings
                   = Concatenated([i \in DOMAIN checks |-> checks[i].warnings])

\* C21 witness: a call whose content gate, provenance gate and rate limiter
\* all failed carries their three violations in that order
C21_Witness ==
    \E w \in Validated :
        /\ Len(req[w].checks) = 4
        /\ Len(req[w].guardrail_result.violations) = 3
        /\ req[w].guardrail_result.violations[1].violation_type = "harmful_intent_detected"
        /\ req[w].guardrail_result.violations[2].violation_type = "unethical_data_source"
        /\ req[w].guardrail_result.violations[3].violation_type = "rate_limit_exceeded"
        /\ req[w].outcome = "GuardrailException"

\* C21 witness of the warnings: a call that passed with the warning of its
\* content gate kept
C21_WitnessWarning ==
    \E w \in Validated :
        /\ req[w].guardrail_result.passed
        /\ req[w].guardrail_result.warnings = <<"pii">>

-----------------------------------------------------------------------------
(* SpecFaults: the engine and its diagnostics while rules raise *)

MaxFaultCalls == 2

\* the signals the rules tell apart
FaultSignals ==
    [event : EventType, sentiment : {"positive", "negative"},
     clarity : {"clear", "confusing"}, price_info : {"lower", "higher", "unknown"},
     execution_quality : {"strong", "weak"},
     messaging_strength : {"clear", "generic", "confusing"},
     market_confusion : {"high", "low"}]

FaultContexts ==
    {ExtractedContext(<<>>, <<>>, "monitoring")}
    \cup {ExtractedContext(<<Competitor("A", s)>>, <<>>, "seeking_response") :
            s \in FaultSignals}

\* the rules that raise in a behaviour: none, one of them, or all of them
BrokenSets == {{}} \cup {{RULES[i]} : i \in DOMAIN RULES} \cup {{RULES[i] : i \in DOMAIN RULES}}

InitFaults ==
    /\ eng_ctx \in FaultContexts
    /\ eng_log = <<>>
    /\ RateIdle
    /\ PipeIdle

\* the same rules raise in every call of a behaviour
SameBroken(broken) == \A k \in DOMAIN eng_log : eng_log[k].broken = broken

\* one call decide_strategy(context) while the rules in broken raise
DecideFaulty(broken) ==
    /\ Len(eng_log) < MaxFaultCalls
    /\ SameBroken(broken)
    /\ eng_log' = Append(eng_log, [call |-> "decide_strategy", context |-> eng_ctx,
                                   broken |-> broken,
                                   result |-> decide_strategy_faulty(eng_ctx, broken)])
    /\ UNCHANGED <<eng_ctx, rateVars, pipeVars>>

\* one call get_rule_diagnostics(context) while the rules in broken raise
Diagnose(broken) ==
    /\ Len(eng_log) < MaxFaultCalls
    /\ SameBroken(broken)
    /\ eng_log' = Append(eng_log, [call |-> "get_rule_diagnostics", context |-> eng_ctx,
                                   broken |-> broken,
                                   result |-> get_rule_diagnostics(eng_ctx, broken)])
    /\ UNCHANGED <<eng_ctx, rateVars, pipeVars>>

NextFaults ==
    \/ \E broken \in BrokenSets : DecideFaulty(broken)
    \/ \E broken \in BrokenSets : Diagnose(broken)

SpecFaults == InitFaults /\ [][NextFaults]_vars

\* the calls of one operation in the log
LoggedCalls(call) == {k \in DOMAIN eng_log : eng_log[k].call = call}

\* the decision of the engine whose RULES list lacks the rules in removed
WithoutRules(context, removed) ==
    LET kept == SelectSeq(RULES, LAMBDA r : r \notin removed)
        matching == {i \in DOMAIN kept : ApplyRule(kept[i], context) # NoDecision}
    IN  IF matching = {} THEN evaluate_wait_rule(context)
        ELSE ApplyRule(kept[CHOOSE i \in matching : \A j \in matching : i <= j], context)

\* C22: when rules raise while they are evaluated, decide_strategy raises
\* nothing and returns what the engine without those rules returns.
C22_BrokenRuleSkipped ==
    \A k \in LoggedCalls("decide_strategy") :
        /\ eng_log[k].result.raised = ""
        /\ eng_log[k].result.decision
               = WithoutRules(eng_log[k].context, eng_log[k].broken)

\* C22 witness: with the market-leader rule raising on a context it would have
\* matched, the engine returned the decision of the pricing rule
C22_Witness ==
    \E k \in LoggedCalls("decide_strategy") :
        /\ eng_log[k].broken = {"evaluate_market_leader_rule"}
        /\ evaluate_market_leader_rule(eng_log[k].context) # NoDecision
        /\ eng_log[k].result.raised = ""
        /\ eng_log[k].result.decision = evaluate_pricing_rule(eng_log[k].context)
        /\ eng_log[k].result.decision # NoDecision

\* the entries of a diagnostics report that matched
MatchedIn(report) ==
    {i \in DOMAIN report.rule_evaluations : report.rule_evaluations[i].matched}

\* what a diagnostics report says the engine decides: the decision of its
\* first matched entry, or its fallback entry
DiagnosedDecision(report) ==
    IF MatchedIn(report) = {} THEN report.fallback
    ELSE report.rule_evaluations[CHOOSE i \in MatchedIn(report) :
                                     \A j \in MatchedIn(report) : i <= j].decision

\* a decision by the fields a diagnostics entry holds
Summary(decision) ==
    [strategy_type |-> decision.strategy_type, focus |-> decision.focus,
     urgency |-> decision.urgency]

\* C24: get_rule_diagnostics agrees with the engine and leaves it alone: for
\* every context, the decision of decide_strategy (by strategy type, focus and
\* urgency, the fields an entry holds) is the decision of the first matched
\* entry of rule_evaluations, or the fallback entry when none matched, whether
\* decide_strategy is called before or after the diagnostics.
C24_DiagnosticsAgree ==
    \A k \in LoggedCalls("get_rule_diagnostics") :
        /\ DiagnosedDecision(eng_log[k].result)
               = Summary(decide_strategy_faulty(eng_log[k].context,
                                                eng_log[k].broken).decision)
        /\ \A j \in LoggedCalls("decide_strategy") :
               /\ eng_log[j].result.raised = ""
               /\ Summary(eng_log[j].result.decision)
                      = DiagnosedDecision(eng_log[k].result)

\* C24 (steps): a call of get_rule_diagnostics changes nothing but the record
\* of what it returned.
C24_NoSideEffect ==
    [][(Len(eng_log') > Len(eng_log)
           /\ eng_log'[Len(eng_log')].call = "get_rule_diagnostics")
          => /\ eng_ctx' = eng_ctx
             /\ SubSeq(eng_log', 1, Len(eng_log)) = eng_log
             /\ UNCHANGED <<rateVars, pipeVars>>]_vars

\* C24 witness: diagnostics with two matched entries of different decisions
\* were followed by a call of the engine, which returned the first of them
C24_Witness ==
    \E k \in LoggedCalls("get_rule_diagnostics"), j \in LoggedCalls("decide_strategy") :
        /\ k < j
        /\ eng_log[k].broken = {}
        /\ \E a, b \in MatchedIn(eng_log[k].result) :
               /\ a < b
               /\ eng_log[k].result.rule_evaluations[a].decision
                      # eng_log[k].result.rule_evaluations[b].decision
               /\ \A c \in MatchedIn(eng_log[k].result) : a <= c
               /\ Summary(eng_log[j].result.decision)
                      = eng_log[k].result.rule_evaluations[a].decision

-----------------------------------------------------------------------------
(* SpecLimits: check_rate_limit on histories that earlier requests have left *)

MaxSeededChecks == 2

\* a history of b1 left by requests before time 0: some older than a day, some
\* of the last day (one every three minutes), some of the last hour (two a
\* minute) and some of the last minute
SeededHistory(old, day, hour, minute) ==
    [i \in 1..old |-> 0 - Day - Hour]
    \o [i \in 1..day |-> 0 - Hour - (day - i + 1) * 3 * Minute]
    \o [i \in 1..hour |-> 0 - (2 + (hour - i) \div 2) * Minute]
    \o [i \in 1..minute |-> -10]

\* the histories the limiter can have been left with: it admits a request while
\* the counts before it are within the limits
SeededHistories ==
    {h \in {SeededHistory(old, day, hour, minute) :
               old \in {0, 2},
               day \in {0, max_per_day - max_per_hour, max_per_day - max_per_hour + 1},
               hour \in {0, max_per_hour - max_per_minute},
               minute \in {0, max_per_minute, max_per_minute + 1}} :
        /\ CountAfter(h, 0 - Minute) <= max_per_minute + 1
        /\ CountAfter(h, 0 - Hour) <= max_per_hour + 1
        /\ CountAfter(h, 0 - Day) <= max_per_day + 1}

InitLimits ==
    /\ now = 0
    /\ request_history \in
           {[b \in {"b1"} |-> h] : h \in SeededHistories}
           \cup {[b \in {"b1", "b2"} |-> IF b = "b1" THEN h ELSE <<-30>>] :
                    h \in SeededHistories}
    /\ rl_log = <<>>
    /\ eng_ctx = OtherContext
    /\ eng_log = <<>>
    /\ PipeIdle

NextLimits ==
    \/ \E b \in BusinessIds : ChecksMade < MaxSeededChecks /\ CheckRateLimit(b)
    \/ \E d \in TimeSteps : Advance(d)

SpecLimits == InitLimits /\ [][NextLimits]_vars

\* the timestamps of a history that lie less than a span before t
Within(entries, t, span) == Cardinality({i \in DOMAIN entries : entries[i] > t - span})

\* the limit a rejected check has to name for the pruned history it found
LimitToName(pruned, t) ==
    IF Within(pruned, t, Minute) > max_per_minute THEN "per minute"
    ELSE IF Within(pruned, t, Hour) > max_per_hour THEN "per hour"
    ELSE "per day"

\* the step is a check for business b: the log of b has one entry more
IsCheckFor(b) == Len(HistoryOf(rl_log', b)) = Len(HistoryOf(rl_log, b)) + 1

\* C23: a check for an identity appends the current time to its history pruned
\* to the last 24 hours exactly when it passes; a rejected check leaves the
\* pruned history as it is and reports one violation, the per-minute limit
\* before the per-hour limit before the per-day limit; the histories of the
\* other identities stay as they were.
C23_HistoryFrame ==
    [][\A b \in BusinessIds :
          IsCheckFor(b) =>
              LET entry == rl_log'[b][Len(rl_log'[b])]
                  before == HistoryOf(request_history, b)
                  pruned == [i \in 1..Within(before, now, Day) |->
                                before[Len(before) - Within(before, now, Day) + i]]
              IN  /\ entry.passed <=> request_history'[b] = pruned \o <<now>>
                  /\ ~entry.passed <=> request_history'[b] = pruned
                  /\ ~entry.passed =>
                         /\ Len(entry.violations) = 1
                         /\ entry.violations[1].violation_type = "rate_limit_exceeded"
                         /\ entry.violations[1].message = LimitToName(pruned, now)
                  /\ entry.passed => entry.violations = <<>>
                  /\ DOMAIN request_history' = DOMAIN request_history \cup {b}
                  /\ \A other \in DOMAIN request_history \ {b} :
                         request_history'[other] = request_history[other]]_vars

\* the rejected checks in the log of b that name a limit
Rejections(b, limit) ==
    {i \in DOMAIN HistoryOf(rl_log, b) :
        ~rl_log[b][i].passed /\ rl_log[b][i].violations[1].message = limit}

\* C23 witness: b1 was rejected for the per-hour limit while more than a day's
\* limit of requests lay within the day, its history was pruned and got no new
\* entry, and b2 was admitted in between
C23_Witness ==
    /\ Rejections("b1", "per hour") # {}
    /\ Len(HistoryOf(rl_log, "b2")) > 0
    /\ rl_log["b2"][1].passed
    /\ Len(request_history["b1"]) = max_per_day + 1
    /\ request_history["b2"][Len(request_history["b2"])] = rl_log["b2"][1].at

\* C23 witnesses of the other limits
C23_WitnessPerDay == Rejections("b1", "per day") # {}

C23_WitnessPerMinute ==
    /\ Rejections("b1", "per minute") # {}
    /\ Within(request_history["b1"], now, Hour) > max_per_hour

-----------------------------------------------------------------------------
(* SpecGates: handle_request on every kind of text, with the rule engine     *)
(* replaced by one that returns what the output gate objects to             *)

MaxGateCalls == 1

NextGates ==
    \/ \E w \in Workers, t \in Texts, b \in CallerIds, m \in BOOLEAN :
           calls < MaxGateCalls /\ Begin(w, t, b, m)
    \/ \E w \in Workers : Extract(w, TRUE, NoCompetitors)
    \/ \E w \in Workers, reply \in AllReplies : Lookup(w, reply)
    \/ \E w \in Workers, d \in StubDecisions, a \in AdvisorOutputs :
           DecideStubbed(w, d, TRUE, a)
    \/ \E w \in Workers, up \in BOOLEAN : Store(w, up)
    \/ \E w \in Workers : SaveStart(w)
    \/ \E w \in Workers, ok \in BOOLEAN : SaveFinish(w, ok)
    \/ \E w \in Workers : Reset(w)

SpecGates == Init /\ [][NextGates]_vars

\* the guardrail results a call has seen: those of the single gates, that of
\* validate_input and that of validate_output
ResultsOf(call) ==
    {call.checks[i] : i \in DOMAIN call.checks}
    \cup {call.guardrail_result, call.output_guardrail}

\* C25: every guardrail result of a single gate, of validate_input and of
\* validate_output has passed false exactly when its violations are not
\* empty; so a call blocked by the guardrails has a first violation whose
\* message the exception carries.
C25_FailedIffViolations ==
    \A w \in Workers :
        /\ \A r \in ResultsOf(req[w]) : (~r.passed) <=> (r.violations # <<>>)
        /\ req[w].outcome = "GuardrailException"
               => /\ ~req[w].guardrail_result.passed
                  /\ Len(req[w].guardrail_result.violations) >= 1
        /\ req[w].flagged <=> req[w].output_guardrail.violations # <<>>

\* C25 witness: a call was blocked over a violation of low severity alone,
\* the first and only violation of its result
C25_Witness ==
    \E w \in Workers :
        /\ req[w].outcome = "GuardrailException"
        /\ Len(req[w].guardrail_result.violations) = 1
        /\ req[w].guardrail_result.violations[1].severity = "low"
        /\ ~req[w].checks[1].passed

\* C25 witness of the output gate: a response with two violations was replaced
C25_WitnessOutput ==
    \E w \in Workers :
        /\ req[w].flagged
        /\ Len(req[w].output_guardrail.violations) = 2
        /\ req[w].response = SafeFallback

-----------------------------------------------------------------------------
(* SpecConcurrent: two callers inside handle_request at the same time, the   *)
(* cache answering, failing and expiring but holding only what the pipeline *)
(* has written                                                              *)

Callers == {"w1", "w2"}

InitConcurrent ==
    /\ pc = [w \in Callers |-> "idle"]
    /\ req = [w \in Callers |-> NoCall]
    /\ redis = <<>>
    /\ decision_memory = <<>>
    /\ calls = 0
    /\ answers = <<>>
    /\ now = 0
    /\ request_history = <<>>
    /\ rl_log = <<>>
    /\ eng_ctx = OtherContext
    /\ eng_log = <<>>

NextConcurrent ==
    \/ \E w \in Callers : Begin(w, PlainText, None, FALSE)
    \/ \E w \in Callers, c \in PipelineContexts : Extract(w, TRUE, c)
    \/ \E w \in Callers, reply \in AllReplies : Lookup(w, reply)
    \/ \E w \in Callers, a \in AdvisorOutputs : DecideAndExplain(w, TRUE, a)
    \/ \E w \in Callers, up \in BOOLEAN : Store(w, up)
    \/ \E w \in Callers : Reset(w)
    \/ \E k \in Keys : Expire(k)

SpecConcurrent == InitConcurrent /\ [][NextConcurrent]_vars

\* the strategy fields of a returned value
StrategyFields(value) ==
    [best_move |-> value.v.best_move, focus |-> value.v.focus,
     urgency |-> value.v.urgency, avoid |-> value.v.avoid]

\* the callers whose call has returned a response
ReturnedCalls == {w \in Callers : pc[w] = "done" /\ req[w].outcome = "returned"}

\* C26: two calls that return a response and have equal extracted contexts
\* return the same best_move, focus, urgency and avoid, whether they ran one
\* after the other or at the same time, took the value from the cache or
\* computed it (the cache absent, expired or failing), and whatever the
\* Explainer returned to each of them.
C26_StrategyFieldsAgree ==
    /\ \A v, w \in ReturnedCalls :
           req[v].extracted = req[w].extracted
               => StrategyFields(req[v].returned) = StrategyFields(req[w].returned)
    /\ \A w \in ReturnedCalls :
           \A k \in DOMAIN answers :
               answers[k].context_hash = req[w].context_hash
                   => StrategyFields(answers[k].returned) = StrategyFields(req[w].returned)
    /\ \A j, k \in DOMAIN answers :
           answers[j].context_hash = answers[k].context_hash
               => StrategyFields(answers[j].returned) = StrategyFields(answers[k].returned)

\* C26 witness: two calls with the same context ran at the same time, both
\* missed the cache and got different advice from the Explainer, and their
\* strategy fields are the same
C26_Witness ==
    \E v, w \in ReturnedCalls :
        /\ v # w
        /\ req[v].extracted = req[w].extracted
        /\ req[v].extracted = OtherContext
        /\ req[v].path = "miss" /\ req[w].path = "miss"
        /\ req[v].returned.v.advice # req[w].returned.v.advice
        /\ StrategyFields(req[v].returned) = StrategyFields(req[w].returned)

\* C26 witness of the cache: one of two calls with the same context returned
\* what the other had stored
C26_WitnessHit ==
    \E v, w \in ReturnedCalls :
        /\ req[v].extracted = req[w].extracted
        /\ req[v].path = "hit" /\ req[w].path = "miss"
        /\ req[v].from = req[w].id
        /\ StrategyFields(req[v].returned) = StrategyFields(req[w].returned)

-----------------------------------------------------------------------------
(* Claims about the engine's decisions and the output gate *)

\* the decisions the engine has returned
EngineDecisions ==
    {eng_log[k].result.decision : k \in {i \in DOMAIN eng_log : eng_log[i].result.raised = ""}}

-----------------------------------------------------------------------------
(* Claims about what handle_request leaves in the rate limiter *)

\* the step lets caller w enter handle_request
Enters(w) == pc[w] = "idle" /\ pc'[w] # "idle"

\* the limits let a request of b through at this moment
WithinLimits(b) ==
    LET pruned == PruneOld(HistoryOf(request_history, b), now)
    IN  /\ CountAfter(pruned, now - Minute) <= max_per_minute
        /\ CountAfter(pruned, now - Hour) <= max_per_hour
        /\ CountAfter(pruned, now - Day) <= max_per_day

\* C28: a call of handle_request with a business id that is within the limits
\* adds the current time to the history of that identity, also when the
\* content or the provenance gate blocks the same call, and no later step of
\* the call (a failing extraction or explanation among them) takes it back.
C28_BlockedCallsCount ==
    [][\A w \in Workers :
          /\ (Enters(w) /\ req'[w].checks # <<>> /\ IsTruthyId(req'[w].business_id)
                 /\ WithinLimits(req'[w].business_id))
                => HistoryOf(request_history', req'[w].business_id)
                       = Append(PruneOld(HistoryOf(request_history, req'[w].business_id), now),
                                now)
          /\ ~Enters(w) => request_history' = request_history]_vars

\* C28 witness: a call of b1 was blocked by the content gate alone and the
\* history of b1 holds its timestamp
C28_Witness ==
    \E w \in Workers :
        /\ req[w].business_id = "b1"
        /\ req[w].outcome = "GuardrailException"
        /\ ~req[w].checks[1].passed
        /\ req[w].checks[3].passed
        /\ Len(HistoryOf(request_history, "b1")) = req[w].id

\* C28 witness of the later failure: a second call of b1 failed in the
\* explanation and the history of b1 holds two timestamps
C28_WitnessFailed ==
    \E w \in Workers :
        /\ req[w].business_id = "b1"
        /\ req[w].outcome = "ExplainerError"
        /\ Len(HistoryOf(request_history, "b1")) = 2

-----------------------------------------------------------------------------
(* SpecRecover: check_rate_limit for an identity whose last minute is full,
   as the minute passes *)

MaxRecoverChecks == 3

\* b1 has just been admitted for the eleventh time within the minute, after
\* some requests earlier in the hour, two a minute
RecoverHistories ==
    {[i \in 1..earlier |-> 0 - (2 + (earlier - i) \div 2) * Minute] \o Saturated :
        earlier \in {0, 1, max_per_hour - max_per_minute - 1, max_per_hour - max_per_minute}}

InitRecover ==
    /\ now = 0
    /\ request_history \in {[b \in {"b1"} |-> h] : h \in RecoverHistories}
    /\ rl_log = <<>>
    /\ eng_ctx = OtherContext
    /\ eng_log = <<>>
    /\ PipeIdle

NextRecover ==
    \/ \E b \in BusinessIds : ChecksMade < MaxRecoverChecks /\ CheckRateLimit(b)
    \/ \E d \in TimeSteps : Advance(d)

SpecRecover == InitRecover /\ [][NextRecover]_vars

\* the time of the last admitted request of a history
LastAdmitted(entries) == entries[Len(entries)]

\* C29: once b has been rejected for the per-minute limit, a check made 60
\* seconds or more after its last admitted request passes, provided the hour
\* and the day hold no more than their limits; a rejected check leaves the
\* last admitted request where it was.
C29_MinuteLimitRecovers ==
    [][\A b \in BusinessIds :
          (IsCheckFor(b) /\ HistoryOf(request_history, b) # <<>>) =>
              LET entry == rl_log'[b][Len(rl_log'[b])]
                  before == request_history[b]
              IN  /\ (/\ Rejections(b, "per minute") # {}
                      /\ now - LastAdmitted(before) >= Minute
                      /\ Within(before, now, Hour) <= max_per_hour
                      /\ Within(before, now, Day) <= max_per_day)
                         => entry.passed
                  /\ ~entry.passed
                         => LastAdmitted(request_history'[b]) = LastAdmitted(before)]_vars

\* C29 witness: b1 was rejected for the per-minute limit at 0 and at 30 seconds
\* after its last admitted request, and admitted at 60 seconds
C29_Witness ==
    /\ Len(HistoryOf(rl_log, "b1")) = 3
    /\ \A i \in 1..2 : i \in Rejections("b1", "per minute")
    /\ rl_log["b1"][2].at = 30
    /\ rl_log["b1"][3].at = Minute
    /\ rl_log["b1"][3].passed
    /\ LastAdmitted(request_history["b1"]) = Minute

\* C29 witness of the proviso: the minute has passed but the hour is full, and
\* b1 is rejected for the per-hour limit
C29_WitnessHourFull ==
    /\ Rejections("b1", "per minute") # {}
    /\ Rejections("b1", "per hour") # {}

-----------------------------------------------------------------------------
(* SpecAnonymous: one call of handle_request after the other within the same
   minute, with and without a business id; each call is blocked by the gate
   or ends in the extraction *)

MaxAnonymousCalls == 12

AnonymousTexts == {PlainText, RawText(0, 0, FALSE, FALSE, FALSE, FALSE)}

NextAnonymous ==
    \/ \E w \in Workers, t \in AnonymousTexts, b \in {None, "", "b1"} :
           BeginWithin(MaxAnonymousCalls, w, t, b, FALSE)
    \/ \E w \in Workers : Extract(w, FALSE, NoCompetitors)
    \/ \E w \in Workers : Reset(w)

SpecAnonymous == Init /\ [][NextAnonymous]_vars

\* C30: a call of handle_request without a business id is checked by the
\* content and the provenance gate alone, is never rejected with
\* rate_limit_exceeded, and leaves every identity's history as it was, however
\* many calls came before it.
C30_NoIdNoLimit ==
    [][\A w \in Workers :
          (Enters(w) /\ req'[w].checks # <<>> /\ ~IsTruthyId(req'[w].business_id)) =>
              /\ req'[w].checks = <<InputGuardrails_validate(req'[w].raw_text),
                                    validate_data_source(req'[w].raw_text)>>
              /\ \A k \in DOMAIN req'[w].violations :
                     req'[w].violations[k].violation_type
                         \notin {"rate_limit_exceeded", "invalid_business"}
              /\ request_history' = request_history]_vars

\* C30 witness: the twelfth call within the minute, all of them without a
\* business id, has passed the gate, and the histories are as they were
C30_Witness ==
    \E w \in Workers :
        /\ req[w].id = max_per_minute + 2
        /\ req[w].business_id = None
        /\ req[w].checks # <<>>
        /\ req[w].guardrail_result.passed
        /\ request_history = [b \in {"b2"} |-> Saturated]

\* C30 witness of the contrast: the twelfth call of b1 within the minute is
\* rejected for the rate limit
C30_WitnessLimited ==
    \E w \in Workers :
        /\ req[w].business_id = "b1"
        /\ Len(HistoryOf(request_history, "b1")) = max_per_minute + 1
        /\ \E k \in DOMAIN req[w].violations :
               req[w].violations[k].violation_type = "rate_limit_exceeded"

====
